---- MODULE Spec2Model ----
(***************************************************************************)
(* Symretope constraint handler (cons_symretope.c) and permutation model   *)
(* (permutation.c): propagation by implication trees, peek, the            *)
(* monotone-ordered cycle-by-cycle path, conflict resolution and the       *)
(* solution check.                                                         *)
(*                                                                         *)
(* Arrays of the C code are functions over 0..len-1.  A tree node of the   *)
(* arena of one permutation is its offset 2*var+side; the root of the tree *)
(* is ROOT and a null pointer is NULL.                                     *)
(***************************************************************************)
EXTENDS Integers, Sequences, FiniteSets, TLC

\* ---------------------------------------------------------------- bounds
\* largest support size n of a constraint where all callbacks are explored
MaxN == 3
\* largest number of constraints that the propagation callback loops over
MaxConss == 2
\* number of bound changes that the host makes
MaxHostFixes == 1
\* largest n where propagation and its resolution are explored from every entry state
MaxNPropagate == 4
\* largest n where the monotone and ordered permutations are explored
MaxNMonotone == 5
\* largest n where the solution check is explored
MaxNCheck == 5
\* the value of the parameter maxorder that caps the tracked powers
CappedMaxOrder == 1
\* largest n where single calls of completeFixingsPerPermutation are explored
MaxNComplete == 5

\* SpecBuilder: largest number of variables of the constraint
MaxNBuilder == 5
\* SpecTerminate: largest number of variables of the constraint
MaxNTerminate == 4
\* SpecReplay: largest number of variables of the constraint
MaxNReplay == 6
\* SpecImpactful: largest number of variables of the constraint
MaxNImpactful == 3
\* cycle types of the permutations whose caps are computed: up to two kinds of cycles,
\* of length up to MaxCycleLen, up to MaxCycleCount cycles of a kind
MaxCycleLen == 6
MaxCycleCount == 2
\* largest number n' of input variables of the constraints created from every index map
MaxInputN == 3
\* largest n of the permutation objects built by SCIPgetPermutation on its own
MaxNPermutation == 5
\* powers asked of a permutation object: -MaxPow..MaxPow, and the PowSlack + 1 powers
\* next to INT_MAX and to -INT_MAX
MaxPow == 7
PowSlack == 2

\* ---------------------------------------------------------------- constants
FIXED0 == 1
FIXED1 == 2
UNFIXED == 0
FIXEDMAX == 4
SYMRETOPE_ROOT == 0
SYMRETOPE_COND == 1
SYMRETOPE_NECC == 2
DEFAULT_SYMRETOPEPEEK == TRUE
DEFAULT_SYMRETOPEMAXORDER == 10000
DEFAULT_SYMRETOPEMAXORDERNVARS == 5000000
DEFAULT_PROBINGPEEK == FALSE
INT_MAX == 2147483647
ROOT == -1
NULL == -2

Min2(a, b) == IF a < b THEN a ELSE b

\* C remainder (truncation toward zero) for a positive divisor
CRem(a, b) == IF a >= 0 THEN a % b ELSE 0 - ((0 - a) % b)

\* ---------------------------------------------------------------- permutation.c
RECURSIVE gcd(_, _)
gcd(a, b) ==
  LET a2 == IF a > b THEN a % b ELSE a
      b2 == IF a > b THEN b ELSE b % a
  IN IF a2 > 0 /\ b2 > 0 THEN gcd(a2, b2)
     ELSE IF a2 > b2 THEN a2 ELSE b2

\* variant that multiplies the lengths
lcmProduct(a, b) == a * b

lcm(a, b) == (a \div gcd(a, b)) * b

\* variant that compares the maximum of the finished cycle, not every index of the
\* cycle, with the maximum of the cycle before it
RECURSIVE WalkCycleFlagsByMaximum(_, _, _, _)
WalkCycleFlagsByMaximum(perm, i, j, w) ==
  LET max == IF w.cyclemaxindex < j THEN j ELSE w.cyclemaxindex
      w2 == [ cyclemaxindex  |-> max,
              isordered      |-> IF perm[j] = i /\ max < w.prevcyclemaxindex
                                 THEN FALSE ELSE w.isordered,
              ndescendpoints |-> IF perm[j] < j THEN w.ndescendpoints + 1 ELSE w.ndescendpoints,
              checked        |-> w.checked \cup {j},
              thiscyclesize  |-> w.thiscyclesize + 1,
              prevcyclemaxindex |-> w.prevcyclemaxindex ]
  IN IF perm[j] # i THEN WalkCycleFlagsByMaximum(perm, i, perm[j], w2) ELSE w2

\* the do-while walk of one cycle in the first loop of SCIPgetPermutation
RECURSIVE WalkCycleFlags(_, _, _, _)
WalkCycleFlags(perm, i, j, w) ==
  LET w2 == [ cyclemaxindex  |-> IF w.cyclemaxindex < j THEN j ELSE w.cyclemaxindex,
              isordered      |-> IF j < w.prevcyclemaxindex THEN FALSE ELSE w.isordered,
              ndescendpoints |-> IF perm[j] < j THEN w.ndescendpoints + 1 ELSE w.ndescendpoints,
              checked        |-> w.checked \cup {j},
              thiscyclesize  |-> w.thiscyclesize + 1,
              prevcyclemaxindex |-> w.prevcyclemaxindex ]
  IN IF perm[j] # i THEN WalkCycleFlags(perm, i, perm[j], w2) ELSE w2

\* variant whose monotone flag tells of the last cycle only
RECURSIVE ScanCyclesLastCycle(_, _, _, _)
ScanCyclesLastCycle(perm, nvars, i, a) ==
  IF i >= nvars THEN a
  ELSE IF i \in a.checked THEN ScanCyclesLastCycle(perm, nvars, i + 1, a)
  ELSE
    LET w == WalkCycleFlags(perm, i, i,
               [ cyclemaxindex |-> i, isordered |-> a.isordered, ndescendpoints |-> 0,
                 checked |-> a.checked, thiscyclesize |-> 0,
                 prevcyclemaxindex |-> a.prevcyclemaxindex ])
    IN ScanCyclesLastCycle(perm, nvars, i + 1,
         [ checked |-> w.checked,
           ncycles |-> a.ncycles + 1,
           isordered |-> w.isordered,
           ismonotone |-> w.ndescendpoints <= 1,
           prevcyclemaxindex |-> w.cyclemaxindex,
           order |-> lcm(a.order, w.thiscyclesize),
           maxcyclesize |-> IF a.maxcyclesize < w.thiscyclesize
                            THEN w.thiscyclesize ELSE a.maxcyclesize ])

\* first loop of SCIPgetPermutation: order, flags, number of cycles
RECURSIVE ScanCycles(_, _, _, _)
ScanCycles(perm, nvars, i, a) ==
  IF i >= nvars THEN a
  ELSE IF i \in a.checked THEN ScanCycles(perm, nvars, i + 1, a)
  ELSE
    LET w == WalkCycleFlags(perm, i, i,
               [ cyclemaxindex |-> i, isordered |-> a.isordered, ndescendpoints |-> 0,
                 checked |-> a.checked, thiscyclesize |-> 0,
                 prevcyclemaxindex |-> a.prevcyclemaxindex ])
    IN ScanCycles(perm, nvars, i + 1,
         [ checked |-> w.checked,
           ncycles |-> a.ncycles + 1,
           isordered |-> w.isordered,
           ismonotone |-> IF w.ndescendpoints > 1 THEN FALSE ELSE a.ismonotone,
           prevcyclemaxindex |-> w.cyclemaxindex,
           order |-> lcm(a.order, w.thiscyclesize),
           maxcyclesize |-> IF a.maxcyclesize < w.thiscyclesize
                            THEN w.thiscyclesize ELSE a.maxcyclesize ])

\* the do-while walk of one cycle in the second loop: the cycle as a sequence
RECURSIVE WalkCycle(_, _, _, _)
WalkCycle(perm, i, j, acc) ==
  IF perm[j] # i THEN WalkCycle(perm, i, perm[j], Append(acc, j)) ELSE Append(acc, j)

\* second loop of SCIPgetPermutation: cycle decomposition
RECURSIVE Decompose(_, _, _, _)
Decompose(perm, nvars, i, d) ==
  IF i >= nvars THEN d
  ELSE IF d.varcycle[i] >= 0 THEN Decompose(perm, nvars, i + 1, d)
  ELSE
    LET cyc == WalkCycle(perm, i, i, << >>)
        cid == Len(d.cycles)
        len == Len(cyc)
    IN Decompose(perm, nvars, i + 1,
         [ cycles |-> Append(d.cycles, [p \in 0..(len - 1) |-> cyc[p + 1]]),
           cyclelengths |-> Append(d.cyclelengths, len),
           varcycle |-> [v \in 0..(nvars - 1) |->
                           IF \E p \in 1..len : cyc[p] = v THEN cid ELSE d.varcycle[v]],
           varcyclepos |-> [v \in 0..(nvars - 1) |->
                           IF \E p \in 1..len : cyc[p] = v
                           THEN (CHOOSE p \in 1..len : cyc[p] = v) - 1
                           ELSE d.varcyclepos[v]] ])

SCIPgetPermutation(perm, nvars) ==
  LET a == ScanCycles(perm, nvars, 0,
             [ checked |-> {}, ncycles |-> 0, isordered |-> TRUE, ismonotone |-> TRUE,
               prevcyclemaxindex |-> -1, order |-> 1, maxcyclesize |-> 0 ])
      d == Decompose(perm, nvars, 0,
             [ cycles |-> << >>, cyclelengths |-> << >>,
               varcycle |-> [v \in 0..(nvars - 1) |-> -1],
               varcyclepos |-> [v \in 0..(nvars - 1) |-> -1] ])
  IN [ perm |-> perm,
       nvars |-> nvars,
       order |-> a.order,
       ncycles |-> a.ncycles,
       ismonotone |-> a.ismonotone,
       isordered |-> a.isordered,
       maxcyclesize |-> a.maxcyclesize,
       cycles |-> [c \in 0..(a.ncycles - 1) |-> d.cycles[c + 1]],
       cyclelengths |-> [c \in 0..(a.ncycles - 1) |-> d.cyclelengths[c + 1]],
       varcycle |-> d.varcycle,
       varcyclepos |-> d.varcyclepos ]

permGet(P, index, pow) ==
  LET cycleid == P.varcycle[index]
      cyclelen == P.cyclelengths[cycleid]
      pos0 == CRem(P.varcyclepos[index] + pow, cyclelen)
      pos == IF pos0 < 0 THEN pos0 + cyclelen ELSE pos0
  IN P.cycles[cycleid][pos]

\* pos + pow - 2^32 for an int sum pos + pow beyond INT_MAX, taken modulo cyclelen as
\* C does for a negative dividend and moved into 0..cyclelen-1
WrappedPosition(pos, pow, cyclelen) ==
  LET sum == (pos - INT_MAX - 1) + (pow - INT_MAX - 1)
      magnitude == (((0 - (sum + 1)) % cyclelen) + 1) % cyclelen
  IN IF magnitude = 0 THEN 0 ELSE cyclelen - magnitude

\* what a call of permGet can return: pos + pow is an int addition, and beyond
\* INT_MAX its behaviour is undefined: the build wraps the sum or traps
permGetOutcomes(P, index, pow) ==
  LET cycleid == P.varcycle[index]
      cyclelen == P.cyclelengths[cycleid]
      pos == P.varcyclepos[index]
  IN IF pow > INT_MAX - pos
     THEN {[fault |-> TRUE, entry |-> index],
           [fault |-> FALSE, entry |-> P.cycles[cycleid][WrappedPosition(pos, pow, cyclelen)]]}
     ELSE {[fault |-> FALSE, entry |-> permGet(P, index, pow)]}

\* the loop over the positions of cycle c in getPermArray
RECURSIVE WriteCycle(_, _, _, _, _)
WriteCycle(P, pow, c, i, arr) ==
  IF i >= P.cyclelengths[c] THEN arr
  ELSE WriteCycle(P, pow, c, i + 1,
         [arr EXCEPT ![P.cycles[c][i]] = P.cycles[c][(i + pow) % P.cyclelengths[c]]])

\* the loop over the cycles in getPermArray
RECURSIVE WriteCycles(_, _, _, _)
WriteCycles(P, pow, c, arr) ==
  IF c >= P.ncycles THEN arr
  ELSE WriteCycles(P, pow, c + 1, WriteCycle(P, pow, c, 0, arr))

\* getPermArray on an array arr of nvars entries
getPermArray(P, pow, arr) ==
  LET pow0 == CRem(pow, P.order)
  IN WriteCycles(P, IF pow0 < 0 THEN pow0 + P.order ELSE pow0, 0, arr)

\* ---------------------------------------------------------------- index sets
Vars(n) == 0..(n - 1)
Nodes(n) == (-1)..(2 * n - 1)
BitAnd(a, b) == ((a % 2) * (b % 2)) + 2 * ((a \div 2) * (b \div 2))
BitOr(a, b) == (IF a % 2 = 1 \/ b % 2 = 1 THEN 1 ELSE 0)
               + 2 * (IF a \div 2 = 1 \/ b \div 2 = 1 THEN 1 ELSE 0)
\* x &= ~b for x in 0..3 and b in {FIXED0, FIXED1}
BitClear(x, b) == x - BitAnd(x, b)

\* ---------------------------------------------------------------- virtual fixings
\* allocVirtualFixings: empty stack, clean lookup
allocVirtualFixings(n) == [ on |-> TRUE, entrystack |-> << >>, entrylookup |-> [v \in Vars(n) |-> UNFIXED] ]
\* a null virtualfixings pointer
NoVirtualFixings(n) == [ on |-> FALSE, entrystack |-> << >>, entrylookup |-> [v \in Vars(n) |-> UNFIXED] ]

setVirtualFixing(vf, entry, value) ==
  [ vf EXCEPT !.entrystack = IF vf.entrylookup[entry] = UNFIXED THEN Append(@, entry) ELSE @,
              !.entrylookup[entry] = BitOr(@, value) ]

getVirtualFixing(vf, entry) == vf.entrylookup[entry]

clearVirtualFixings(vf) ==
  [ vf EXCEPT !.entrystack = << >>,
              !.entrylookup = [v \in DOMAIN vf.entrylookup |->
                                 IF \E p \in 1..Len(vf.entrystack) : vf.entrystack[p] = v
                                 THEN UNFIXED ELSE vf.entrylookup[v]] ]

RECURSIVE CopyReplay(_, _, _)
CopyReplay(from, to, p) ==
  IF p > Len(from.entrystack) THEN to
  ELSE CopyReplay(from, setVirtualFixing(to, from.entrystack[p], from.entrylookup[from.entrystack[p]]), p + 1)

copyVirtualFixings(from, to) == CopyReplay(from, clearVirtualFixings(to), 1)

\* ---------------------------------------------------------------- call context
(* A context cx carries everything a call chain reads or writes:           *)
(*   bounds     local bounds of the problem, UNFIXED / FIXED0 / FIXED1     *)
(*   commits    bound changes made through SCIPinferVar{Lb,Ub}Cons         *)
(*   conflicts  conflict analyses started                                  *)
(*   vf         the virtualfixings argument (on = FALSE: NULL)             *)
(*   upb        the useproblembounds argument                              *)
(*   checked    the checkedentries argument (on = FALSE: NULL)             *)
(*   imp        impactfulentries / entryisimpactful (on = FALSE: NULL)     *)
(*   g          the SCIP_SYMRETOPEGRAPH, fq the SCIP_FIXINGQUEUE           *)
(*   cons       index of the constraint that is processed                  *)
(*   infeasible, ngen, tightened   the out-parameters                      *)
(*   ret, eol   a pending return / goto Cleanup, a pending goto Endofleaves *)

\* ---------------------------------------------------------------- getVarFixing / setVarFixing
\* variant that reads a problem bound the wrong way round (upper bound below 0.5
\* taken as a fixing to 1)
getVarFixingValueSwapped(cx, varid) ==
  LET v == IF cx.vf.on THEN getVirtualFixing(cx.vf, varid) ELSE UNFIXED
  IN IF cx.vf.on /\ v = FIXED0 THEN FIXED0
     ELSE IF cx.vf.on /\ v = FIXED1 THEN FIXED1
     ELSE IF cx.upb /\ cx.bounds[varid] = FIXED0 THEN FIXED1
     ELSE IF cx.upb /\ cx.bounds[varid] = FIXED1 THEN FIXED0
     ELSE UNFIXED

\* value returned by getVarFixing
getVarFixingValue(cx, varid) ==
  LET v == IF cx.vf.on THEN getVirtualFixing(cx.vf, varid) ELSE UNFIXED
  IN IF cx.vf.on /\ v = FIXED0 THEN FIXED0
     ELSE IF cx.vf.on /\ v = FIXED1 THEN FIXED1
     ELSE IF cx.upb /\ cx.bounds[varid] = FIXED1 THEN FIXED1
     ELSE IF cx.upb /\ cx.bounds[varid] = FIXED0 THEN FIXED0
     ELSE UNFIXED

\* side effects of getVarFixing: the entry is marked in checkedentries (mark = TRUE
\* when the caller passes the array) and a problem bound is cached in the overlay
getVarFixingEffect(cx, varid, mark) ==
  LET v == IF cx.vf.on THEN getVirtualFixing(cx.vf, varid) ELSE UNFIXED
      c1 == IF mark /\ cx.checked.on THEN [cx EXCEPT !.checked.at[varid] = TRUE] ELSE cx
  IN IF cx.vf.on /\ v \in {FIXED0, FIXED1} THEN c1
     ELSE IF cx.upb /\ cx.vf.on /\ cx.bounds[varid] # UNFIXED
          THEN [c1 EXCEPT !.vf = setVirtualFixing(@, varid, cx.bounds[varid])]
          ELSE c1

\* variant that changes the bound of the problem, with or without an overlay
setVarFixingOnProblem(cx, varid, fixing, inferinfo) ==
  IF cx.bounds[varid] = fixing
  THEN [cx EXCEPT !.infeasible = FALSE, !.tightened = FALSE]
  ELSE IF cx.bounds[varid] # UNFIXED
  THEN [cx EXCEPT !.infeasible = TRUE, !.tightened = FALSE]
  ELSE [cx EXCEPT !.infeasible = FALSE, !.tightened = TRUE,
                  !.bounds[varid] = fixing,
                  !.commits = Append(@, [cons |-> cx.cons, var |-> varid, fixing |-> fixing,
                                         inferinfo |-> inferinfo, before |-> cx.bounds])]

\* setVarFixing: on the problem (SCIPinferVarUbCons / SCIPinferVarLbCons on a binary
\* variable) when virtualfixings is NULL, else on the overlay
setVarFixing(cx, varid, fixing, inferinfo) ==
  IF ~cx.vf.on
  THEN IF cx.bounds[varid] = fixing
       THEN [cx EXCEPT !.infeasible = FALSE, !.tightened = FALSE]
       ELSE IF cx.bounds[varid] # UNFIXED
       THEN [cx EXCEPT !.infeasible = TRUE, !.tightened = FALSE]
       ELSE [cx EXCEPT !.infeasible = FALSE, !.tightened = TRUE,
                       !.bounds[varid] = fixing,
                       !.commits = Append(@, [cons |-> cx.cons, var |-> varid, fixing |-> fixing,
                                              inferinfo |-> inferinfo, before |-> cx.bounds])]
  ELSE LET old == getVirtualFixing(cx.vf, varid)
           vf2 == setVirtualFixing(cx.vf, varid, fixing)
       IN [cx EXCEPT !.tightened = (BitAnd(old, fixing) = 0),
                     !.vf = vf2,
                     !.infeasible = (getVirtualFixing(vf2, varid) = 3)]

\* ---------------------------------------------------------------- implication graphs
\* allocSymretopeGraph: clean node arena for maxnperms trees
allocSymretopeGraph(n, maxnperms) ==
  LET K == 0..(maxnperms - 1)
  IN [ pred |-> [k \in K |-> [x \in Nodes(n) |-> NULL]],
       s1   |-> [k \in K |-> [x \in Nodes(n) |-> NULL]],
       s2   |-> [k \in K |-> [x \in Nodes(n) |-> NULL]],
       ty   |-> [k \in K |-> [x \in Nodes(n) |-> 0]],
       fx   |-> [k \in K |-> [x \in Nodes(n) |-> 0]],
       leaves |-> [k \in K |-> [l \in 0..1 |-> NULL]],
       permpows |-> [k \in K |-> 0],
       permsinqueue |-> [k \in K |-> FALSE],
       permsqueue |-> << >>,
       permindices |-> [k \in K |-> 0] ]

\* allocFixingQueue
allocFixingQueue(n) ==
  [ fixinginqueue |-> [v \in Vars(n) |-> UNFIXED],
    fixingqueue |-> << >>,
    fixingpermpows |-> [v \in Vars(n) |-> 0] ]

\* all attributes of a node set to zero / NULL
ZeroNode(g, k, x) ==
  [g EXCEPT !.fx[k][x] = 0, !.ty[k][x] = 0, !.pred[k][x] = NULL,
            !.s1[k][x] = NULL, !.s2[k][x] = NULL]

\* removeSubtree, last lines: the end of the removed path is no leaf any more
ClearLeaf(g, k, x) ==
  [g EXCEPT !.leaves[k] = [l \in 0..1 |-> IF g.leaves[k][l] = x THEN NULL ELSE g.leaves[k][l]]]

\* a leaf pointer that refers to old moves to new
MoveLeaf(g, k, old, new) ==
  [g EXCEPT !.leaves[k] = [l \in 0..1 |-> IF g.leaves[k][l] = old THEN new ELSE g.leaves[k][l]]]

RECURSIVE removeSubtree(_, _, _)
RECURSIVE RemoveChain(_, _, _)
RemoveChain(g, k, x) ==
  LET g1 == IF g.s1[k][x] # NULL /\ g.s2[k][x] # NULL
            THEN removeSubtree(g, k, g.s2[k][x]) ELSE g
      next == IF g1.s1[k][x] # NULL THEN g1.s1[k][x] ELSE g1.s2[k][x]
      g2 == ZeroNode(g1, k, x)
  IN IF next # NULL THEN RemoveChain(g2, k, next) ELSE ClearLeaf(g2, k, x)

removeSubtree(g, k, root) ==
  LET p == g.pred[k][root]
      g1 == IF g.ty[k][root] # SYMRETOPE_ROOT
            THEN IF root = g.s1[k][p]
                 THEN [g EXCEPT !.s1[k][p] = g.s2[k][p], !.s2[k][p] = NULL]
                 ELSE [g EXCEPT !.s2[k][p] = NULL]
            ELSE g
  IN RemoveChain(g1, k, root)

\* ---------------------------------------------------------------- conflict analysis
\* whether SCIPisConflictAnalysisApplicable holds in the host
ConflictAnalysisApplicable == TRUE

\* a conflict analysis started on the problem: the resolver calls it makes
StartConflict(cx, calls) ==
  IF ~cx.vf.on /\ ConflictAnalysisApplicable
  THEN [cx EXCEPT !.conflicts = Append(@, [calls |-> calls, bounds |-> cx.bounds])]
  ELSE cx

\* ---------------------------------------------------------------- enqueueFixing
\* variant that records the power of the neighbouring tree with the queued fixing
enqueueFixingNextPower(cx, nvars, fixing, permpow) ==
  LET i == fixing % nvars
      b == IF fixing >= nvars THEN FIXED1 ELSE FIXED0
      q == cx.fq.fixinginqueue[i]
  IN IF BitAnd(q, b) # 0 THEN cx
     ELSE IF BitOr(q, b) = 3
     THEN StartConflict([cx EXCEPT !.infeasible = TRUE],
            << [var |-> i, upper |-> (b = FIXED0), permpow |-> permpow],
               [var |-> i, upper |-> (b # FIXED0), permpow |-> cx.fq.fixingpermpows[i]] >>)
     ELSE [cx EXCEPT !.fq.fixingpermpows[i] = permpow + 1,
                     !.fq.fixinginqueue[i] = BitOr(q, b),
                     !.fq.fixingqueue = Append(@, fixing)]

\* enqueueFixing: sets the queue bit of the fixing and records permpow, or reports
\* infeasibility when the converse fixing is queued
enqueueFixing(cx, nvars, fixing, permpow) ==
  LET i == fixing % nvars
      b == IF fixing >= nvars THEN FIXED1 ELSE FIXED0
      q == cx.fq.fixinginqueue[i]
  IN IF BitAnd(q, b) # 0 THEN cx
     ELSE IF BitOr(q, b) = 3
     THEN LET other == cx.fq.fixingpermpows[i]
              c1 == [cx EXCEPT !.infeasible = TRUE]
          IN StartConflict(c1,
               IF b = FIXED0
               THEN << [var |-> i, upper |-> TRUE, permpow |-> permpow],
                       [var |-> i, upper |-> FALSE, permpow |-> other] >>
               ELSE << [var |-> i, upper |-> FALSE, permpow |-> permpow],
                       [var |-> i, upper |-> TRUE, permpow |-> other] >>)
     ELSE [cx EXCEPT !.fq.fixingpermpows[i] = permpow,
                     !.fq.fixinginqueue[i] = BitOr(q, b),
                     !.fq.fixingqueue = Append(@, fixing)]

\* ---------------------------------------------------------------- applyFixings
Converse(fixing, nvars) == IF fixing >= nvars THEN fixing - nvars ELSE fixing + nvars

\* node keyed on the applied variable carries the applied value: splice it out
ApplySameFixing(cx, nvars, k, node) ==
  LET g0 == cx.g
      p == g0.pred[k][node]
      \* the successors of node are attached to its predecessor p in g1
      Splice(g1) ==
        LET n1 == g1.s1[k][node]
            n2 == g1.s2[k][node]
            g2 == [g1 EXCEPT !.s1[k][p] = n1, !.s2[k][p] = n2]
            g3 == IF n1 # NULL THEN [g2 EXCEPT !.pred[k][n1] = p] ELSE g2
            g4 == IF n2 # NULL THEN [g3 EXCEPT !.pred[k][n2] = p] ELSE g3
        IN MoveLeaf(ZeroNode(g4, k, node), k, node, p)
      Failed(c) == IF c.infeasible THEN [c EXCEPT !.ret = TRUE] ELSE c
      \* c6 is the context after the first successor of the root was handled
      Second(g5, first, c6) ==
        IF first /\ c6.infeasible THEN [c6 EXCEPT !.ret = TRUE]
        ELSE IF g5.s2[k][p] # NULL /\ g5.ty[k][g5.s1[k][p]] = SYMRETOPE_NECC
        THEN Failed(enqueueFixing(c6, nvars, g5.fx[k][g5.s2[k][p]], g5.permpows[k]))
        ELSE c6
      \* necessary fixings that reached the root are queued
      Surface(g5) ==
        IF g5.ty[k][p] = SYMRETOPE_ROOT
        THEN LET first == g5.s1[k][p] # NULL /\ g5.ty[k][g5.s1[k][p]] = SYMRETOPE_NECC
             IN Second(g5, first,
                       IF first
                       THEN enqueueFixing([cx EXCEPT !.g = g5], nvars,
                                          g5.fx[k][g5.s1[k][p]], g5.permpows[k])
                       ELSE [cx EXCEPT !.g = g5])
        ELSE [cx EXCEPT !.g = g5]
  IN Surface(Splice(IF g0.s1[k][p] # NULL /\ g0.s2[k][p] # NULL
                    THEN removeSubtree(g0, k, IF g0.s1[k][p] = node THEN g0.s2[k][p]
                                              ELSE g0.s1[k][p])
                    ELSE g0))

\* first ancestor, starting at x, that is no necessary fixing node
RECURSIVE FirstNonNecc(_, _, _)
FirstNonNecc(g, k, x) ==
  IF g.ty[k][x] = SYMRETOPE_NECC THEN FirstNonNecc(g, k, g.pred[k][x]) ELSE x

\* necessary node keyed on the applied variable carries the converse value
ApplyConverseNecc(cx, nvars, k, node) ==
  LET g0 == cx.g
      \* a necessary fixing that reached the root is queued
      Surface(g, pred, n) ==
        IF g.ty[k][pred] = SYMRETOPE_ROOT
        THEN enqueueFixing([cx EXCEPT !.g = g], nvars, g.fx[k][n], g.permpows[k])
        ELSE [cx EXCEPT !.g = g]
      DropFirst(g, succ) ==
        IF g.s1[k][succ] # NULL THEN removeSubtree(g, k, g.s1[k][succ]) ELSE g
      DropSecond(g, succ) ==
        IF g.s2[k][succ] # NULL THEN removeSubtree(g, k, g.s2[k][succ]) ELSE g
      \* succ has no sibling: it becomes a necessary node carrying the converse fixing
      Negate(g1, succ, pred) ==
        Surface(DropSecond(DropFirst([g1 EXCEPT !.ty[k][succ] = SYMRETOPE_NECC,
                                                !.fx[k][succ] = Converse(g1.fx[k][succ], nvars)],
                                     succ), succ),
                pred, succ)
      \* succ has the sibling twin: twinsucc takes the place of twin, in g2
      Rotate(g2, pred, twin, twinsucc) ==
        LET t1 == g2.s1[k][twinsucc]
            t2 == g2.s2[k][twinsucc]
            g3 == [g2 EXCEPT !.pred[k][twinsucc] = pred, !.pred[k][twin] = twinsucc]
            g4 == IF t1 # NULL THEN [g3 EXCEPT !.pred[k][t1] = twin] ELSE g3
            g5 == IF t2 # NULL THEN [g4 EXCEPT !.pred[k][t2] = twin] ELSE g4
            g6 == [g5 EXCEPT !.s1[k][twin] = t1, !.s2[k][twin] = t2]
            g7 == [g6 EXCEPT !.s1[k][twinsucc] = twin, !.s2[k][twinsucc] = NULL]
            g8 == [g7 EXCEPT !.s1[k][pred] = twinsucc, !.s2[k][pred] = NULL]
        IN MoveLeaf(g8, k, twinsucc, twin)
      Converted(g1, succ) ==
        IF g1.ty[k][succ] = SYMRETOPE_ROOT
        THEN [ StartConflict([cx EXCEPT !.g = g1, !.infeasible = TRUE],
                 << [var |-> -1, upper |-> FALSE, permpow |-> g1.permpows[k]] >>)
               EXCEPT !.ret = TRUE ]
        ELSE
          LET pred == g1.pred[k][succ]
              twin == IF g1.s1[k][pred] = succ THEN g1.s2[k][pred] ELSE g1.s1[k][pred]
              twinsucc == IF g1.s1[k][twin] # NULL THEN g1.s1[k][twin] ELSE g1.s2[k][twin]
          IN IF twin = NULL
             THEN Negate(g1, succ, pred)
             ELSE Surface(Rotate(removeSubtree(g1, k, succ), pred, twin, twinsucc),
                          pred, twinsucc)
      Removed(g1) == Converted(g1, FirstNonNecc(g1, k, g0.pred[k][node]))
  IN Removed(removeSubtree(g0, k, node))

\* variant that only removes a necessary node below the root whose fixing is the
\* converse of the applied one
ApplyNodeLenientAtRoot(cx, nvars, k, j, fixingvarid, fixingvalue) ==
  LET node == 2 * fixingvarid + j
      g0 == cx.g
      fixingvaluealt == IF g0.fx[k][node] >= nvars THEN FIXED1 ELSE FIXED0
  IN IF g0.pred[k][node] = NULL THEN cx
     ELSE IF fixingvalue = fixingvaluealt THEN ApplySameFixing(cx, nvars, k, node)
     ELSE IF g0.ty[k][node] = SYMRETOPE_NECC /\ g0.pred[k][node] # ROOT
     THEN ApplyConverseNecc(cx, nvars, k, node)
     ELSE [cx EXCEPT !.g = removeSubtree(g0, k, node)]

\* body of the loop over j in applyFixings, for tree k and node 2*fixingvarid+j
ApplyNode(cx, nvars, k, j, fixingvarid, fixingvalue) ==
  LET node == 2 * fixingvarid + j
      g0 == cx.g
      fixingvaluealt == IF g0.fx[k][node] >= nvars THEN FIXED1 ELSE FIXED0
  IN IF g0.pred[k][node] = NULL THEN cx
     ELSE IF fixingvalue = fixingvaluealt THEN ApplySameFixing(cx, nvars, k, node)
     ELSE IF g0.ty[k][node] = SYMRETOPE_NECC THEN ApplyConverseNecc(cx, nvars, k, node)
     ELSE [cx EXCEPT !.g = removeSubtree(g0, k, node)]

\* the loop over j = 0, 1 in applyFixings for tree k; a pending return ends it
RECURSIVE ApplyNodes(_, _, _, _, _, _)
ApplyNodes(cx, nvars, k, j, fixingvarid, fixingvalue) ==
  IF j > 1 \/ cx.ret THEN cx
  ELSE ApplyNodes(ApplyNode(cx, nvars, k, j, fixingvarid, fixingvalue),
                  nvars, k, j + 1, fixingvarid, fixingvalue)

\* variant that puts the tree k on the permutation queue without looking at its flag
RequeueTreeUnchecked(cx, k) ==
  IF cx.ret THEN cx
  ELSE [cx EXCEPT !.g.permsqueue = Append(@, k), !.g.permsinqueue[k] = TRUE]

\* the tree k is put on the permutation queue again
RequeueTree(cx, k) ==
  IF cx.ret \/ cx.g.permsinqueue[k] THEN cx
  ELSE [cx EXCEPT !.g.permsqueue = Append(@, k), !.g.permsinqueue[k] = TRUE]

\* the loop over the trees k in applyFixings for one applied fixing
RECURSIVE ApplyTrees(_, _, _, _, _, _)
ApplyTrees(cx, nvars, nperms, k, fixingvarid, fixingvalue) ==
  IF k >= nperms \/ cx.ret THEN cx
  ELSE ApplyTrees(RequeueTree(ApplyNodes(cx, nvars, k, 0, fixingvarid, fixingvalue), k),
                  nvars, nperms, k + 1, fixingvarid, fixingvalue)

\* a generated fixing is counted
CountTightening(cx) == IF cx.tightened THEN [cx EXCEPT !.ngen = @ + 1] ELSE cx

\* variant in which the popped fixing stays marked as queued
PopFixingKeepsMark(cx, nvars) ==
  LET enc == cx.fq.fixingqueue[Len(cx.fq.fixingqueue)]
      fixingvarid == enc % nvars
      fixingvalue == IF enc >= nvars THEN FIXED1 ELSE FIXED0
      c1 == [cx EXCEPT !.fq.fixingqueue = SubSeq(@, 1, Len(@) - 1)]
  IN CountTightening(setVarFixing(c1, fixingvarid, fixingvalue,
                                  cx.fq.fixingpermpows[fixingvarid]))

\* the last fixing of the queue is popped and set
PopFixing(cx, nvars) ==
  LET enc == cx.fq.fixingqueue[Len(cx.fq.fixingqueue)]
      fixingvarid == enc % nvars
      fixingvalue == IF enc >= nvars THEN FIXED1 ELSE FIXED0
      c1 == [cx EXCEPT !.fq.fixingqueue = SubSeq(@, 1, Len(@) - 1),
                       !.fq.fixinginqueue[fixingvarid] = BitClear(@, fixingvalue)]
  IN CountTightening(setVarFixing(c1, fixingvarid, fixingvalue,
                                  cx.fq.fixingpermpows[fixingvarid]))

\* the trees are updated for the popped fixing enc, unless setting it was infeasible:
\* then applyFixings returns
ApplyPopped(cx, nvars, nperms, enc) ==
  IF cx.infeasible THEN [cx EXCEPT !.ret = TRUE]
  ELSE ApplyTrees(cx, nvars, nperms, 0, enc % nvars,
                  IF enc >= nvars THEN FIXED1 ELSE FIXED0)

\* the while loop of applyFixings
RECURSIVE ApplyLoop(_, _, _)
ApplyLoop(cx, nvars, nperms) ==
  IF Len(cx.fq.fixingqueue) = 0 \/ cx.ret THEN cx
  ELSE ApplyLoop(ApplyPopped(PopFixing(cx, nvars), nvars, nperms,
                             cx.fq.fixingqueue[Len(cx.fq.fixingqueue)]),
                 nvars, nperms)

applyFixings(cx, nvars, nperms) ==
  [ ApplyLoop([cx EXCEPT !.ret = FALSE], nvars, nperms) EXCEPT !.ret = FALSE ]

\* ---------------------------------------------------------------- completeFixingsPerPermutation
\* value that the builder reads from the encoded fixing of a tree node
NodeFixingValue(fixing, nvars) == IF fixing > nvars THEN FIXED1 ELSE FIXED0

\* var1fix / var2fix of entry v on the branch leafid of tree k
BranchFixing(cx, nvars, k, v, leafid) ==
  LET f == getVarFixingValue(cx, v)
      a == 2 * v + leafid
      b == 2 * v + (1 - leafid)
  IN IF f # UNFIXED THEN f
     ELSE IF cx.g.pred[k][a] # NULL THEN NodeFixingValue(cx.g.fx[k][a], nvars)
     ELSE IF cx.g.pred[k][b] # NULL THEN NodeFixingValue(cx.g.fx[k][b], nvars)
     ELSE UNFIXED

\* variant in which the fresh node becomes the successor of the leaf and the leaf
\* pointer stays where it was
AddLeafNodeKeepingLeaf(g, k, leafid, leaf, node, type, fixing) ==
  [g EXCEPT !.pred[k][node] = leaf, !.ty[k][node] = type, !.fx[k][node] = fixing,
            !.s1[k][leaf] = node]

\* a fresh node becomes the successor of the leaf and the new leaf
AddLeafNode(g, k, leafid, leaf, node, type, fixing) ==
  [g EXCEPT !.pred[k][node] = leaf, !.ty[k][node] = type, !.fx[k][node] = fixing,
            !.s1[k][leaf] = node, !.leaves[k][leafid] = node]

\* case (0, 1): the necessary nodes at the end of the path are removed;
\* yields the graph and the first node that is not a necessary fixing node
RECURSIVE RemoveNeccPath(_, _, _)
RemoveNeccPath(g, k, leaf) ==
  IF g.ty[k][leaf] = SYMRETOPE_NECC
  THEN LET up == g.pred[k][leaf]
       IN RemoveNeccPath(ZeroNode([g EXCEPT !.s1[k][up] = NULL], k, leaf), k, up)
  ELSE [g |-> g, leaf |-> leaf]

\* case (0, 1) of the switch
InfeasiblePath(cx, nvars, k, leafid, permpow) ==
  LET \* g1, leaf: the graph and the node left by the removal of the necessary nodes
      Converted(g1, leaf) ==
        IF g1.ty[k][leaf] = SYMRETOPE_ROOT
        THEN [ StartConflict([cx EXCEPT !.g = g1, !.infeasible = TRUE],
                 << [var |-> -1, upper |-> FALSE, permpow |-> permpow] >>)
               EXCEPT !.ret = TRUE ]
        ELSE IF g1.ty[k][leaf] = SYMRETOPE_COND
        THEN LET node == g1.pred[k][leaf]
                 twin == IF g1.s1[k][node] = leaf THEN g1.s2[k][node] ELSE g1.s1[k][node]
             IN IF twin = NULL
                THEN [cx EXCEPT !.g = [g1 EXCEPT !.ty[k][leaf] = SYMRETOPE_NECC,
                                                 !.fx[k][leaf] = Converse(g1.fx[k][leaf], nvars)]]
                ELSE LET g2 == [g1 EXCEPT !.fx[k][leaf] = 0, !.ty[k][leaf] = 0, !.pred[k][leaf] = NULL]
                         nl == g2.s1[k][twin]
                         t1 == g2.s1[k][nl]
                         g3 == IF t1 # NULL THEN [g2 EXCEPT !.pred[k][t1] = twin] ELSE g2
                         g4 == [g3 EXCEPT !.s1[k][twin] = t1, !.pred[k][twin] = nl]
                         g5 == [g4 EXCEPT !.pred[k][nl] = node, !.s1[k][nl] = twin]
                         g6 == [g5 EXCEPT !.s1[k][node] = nl, !.s2[k][node] = NULL]
                     IN [cx EXCEPT !.g = MoveLeaf(g6, k, nl, twin)]
        ELSE [cx EXCEPT !.g = g1]
      Removed(r) == Converted(r.g, r.leaf)
  IN Removed(RemoveNeccPath([cx.g EXCEPT !.leaves[k][leafid] = NULL], k,
                            cx.g.leaves[k][leafid]))

\* variant of the case (_, _) whose necessary nodes repeat the value of the
\* conditional node above them
BranchRepeatedValue(g, nvars, k, leaf, i, j) ==
  LET a == 2 * i
      b == 2 * j
      c == 2 * j + 1
      d == 2 * i + 1
      g1 == [g EXCEPT !.s1[k][leaf] = a, !.pred[k][a] = leaf, !.s1[k][a] = b,
                      !.ty[k][a] = SYMRETOPE_COND, !.fx[k][a] = i]
      g2 == [g1 EXCEPT !.pred[k][b] = a, !.ty[k][b] = SYMRETOPE_NECC, !.fx[k][b] = j + nvars,
                       !.leaves[k][0] = b]
      g3 == [g2 EXCEPT !.s2[k][leaf] = c, !.pred[k][c] = leaf, !.s1[k][c] = d,
                       !.ty[k][c] = SYMRETOPE_COND, !.fx[k][c] = j + nvars]
  IN [g3 EXCEPT !.pred[k][d] = c, !.ty[k][d] = SYMRETOPE_NECC, !.fx[k][d] = i,
                !.leaves[k][1] = d]

\* case (_, _) of the switch: two branches below the leaf
Branch(g, nvars, k, leaf, i, j) ==
  LET a == 2 * i
      b == 2 * j
      c == 2 * j + 1
      d == 2 * i + 1
      g1 == [g EXCEPT !.s1[k][leaf] = a, !.pred[k][a] = leaf, !.s1[k][a] = b,
                      !.ty[k][a] = SYMRETOPE_COND, !.fx[k][a] = i]
      g2 == [g1 EXCEPT !.pred[k][b] = a, !.ty[k][b] = SYMRETOPE_NECC, !.fx[k][b] = j,
                       !.leaves[k][0] = b]
      g3 == [g2 EXCEPT !.s2[k][leaf] = c, !.pred[k][c] = leaf, !.s1[k][c] = d,
                       !.ty[k][c] = SYMRETOPE_COND, !.fx[k][c] = j + nvars]
  IN [g3 EXCEPT !.pred[k][d] = c, !.ty[k][d] = SYMRETOPE_NECC, !.fx[k][d] = i + nvars,
                !.leaves[k][1] = d]

\* body of the loop "extend the leaves" for one leafid; eol: goto Endofleaves
ExtendLeaf(cx, nvars, k, leafid, i, j, var1fix, var2fix, permpow) ==
  LET g == cx.g
      leaf == g.leaves[k][leafid]
      code == var1fix + FIXEDMAX * var2fix
  IN IF leaf = NULL THEN cx
     ELSE IF code = FIXED1 + FIXEDMAX * FIXED0
     THEN [cx EXCEPT !.g.leaves[k][leafid] = NULL]
     ELSE IF code = FIXED0 + FIXEDMAX * UNFIXED
     THEN [cx EXCEPT !.g = AddLeafNode(g, k, leafid, leaf, 2 * j + leafid, SYMRETOPE_NECC, j)]
     ELSE IF code = UNFIXED + FIXEDMAX * FIXED1
     THEN [cx EXCEPT !.g = AddLeafNode(g, k, leafid, leaf, 2 * i + leafid, SYMRETOPE_NECC, i + nvars)]
     ELSE IF code = FIXED1 + FIXEDMAX * UNFIXED
     THEN [cx EXCEPT !.g = AddLeafNode(g, k, leafid, leaf, 2 * j + leafid, SYMRETOPE_COND, j + nvars)]
     ELSE IF code = UNFIXED + FIXEDMAX * FIXED0
     THEN [cx EXCEPT !.g = AddLeafNode(g, k, leafid, leaf, 2 * i + leafid, SYMRETOPE_COND, i)]
     ELSE IF code = FIXED0 + FIXEDMAX * FIXED1
     THEN InfeasiblePath(cx, nvars, k, leafid, permpow)
     ELSE IF code = UNFIXED + FIXEDMAX * UNFIXED
     THEN [cx EXCEPT !.g = Branch(g, nvars, k, leaf, i, j), !.eol = TRUE]
     ELSE cx

\* impactful entries: entry v is appended once and flagged; the history keeps the
\* entries that were examined (seen) and those that were appended (put)
MarkImpactful(cx, v) ==
  IF cx.imp.on /\ ~cx.imp.is[v]
  THEN [cx EXCEPT !.imp.entries = Append(@, v), !.imp.is[v] = TRUE,
                  !.imp.seen = @ \cup {v}, !.imp.put = Append(@, v)]
  ELSE IF cx.imp.on THEN [cx EXCEPT !.imp.seen = @ \cup {v}]
  ELSE cx

\* stopping condition C3, evaluated left to right; yields the context after the
\* lookups it made and whether the condition holds
ConditionC3(cx, P, k, i, j, permpow) ==
  LET jj == permGet(P, i, permpow)
      g == cx.g
  IN IF ~(jj > i /\ j > i) THEN [cx |-> cx, holds |-> FALSE]
     ELSE LET c1 == getVarFixingEffect(cx, i, TRUE)
          IN IF getVarFixingValue(cx, i) = FIXED0 THEN [cx |-> c1, holds |-> FALSE]
             ELSE LET c2 == getVarFixingEffect(c1, j, TRUE)
                  IN IF getVarFixingValue(c1, j) = FIXED1 THEN [cx |-> c2, holds |-> FALSE]
                     ELSE [cx |-> c2,
                           holds |-> \/ (g.s1[k][ROOT] # NULL /\ g.ty[k][g.s1[k][ROOT]] = SYMRETOPE_COND)
                                     \/ (g.s2[k][ROOT] # NULL /\ g.ty[k][g.s2[k][ROOT]] = SYMRETOPE_COND)]

\* one index increasing event of tree k at entry i with j = permGet(i, -permpow):
\* the second leaf is extended unless a return or a goto Endofleaves is pending
ExtendSecondLeaf(cx, nvars, k, i, j, var1fix, var2fix, permpow) ==
  IF cx.ret \/ cx.eol THEN cx
  ELSE ExtendLeaf(cx, nvars, k, 1, i, j, var1fix, var2fix, permpow)

\* a step that found infeasibility makes the caller return
ReturnIfInfeasible(cx) == IF cx.infeasible THEN [cx EXCEPT !.ret = TRUE] ELSE cx

\* variant of the label Endofleaves that leaves the index where it is
SurfaceRootSameIndex(cx, nvars, k) ==
  IF cx.ret THEN cx
  ELSE LET c3 == [cx EXCEPT !.eol = FALSE]
           node == c3.g.s1[k][ROOT]
       IN IF node # NULL /\ c3.g.ty[k][node] = SYMRETOPE_NECC
          THEN ReturnIfInfeasible(enqueueFixing(c3, nvars, c3.g.fx[k][node], c3.g.permpows[k]))
          ELSE c3

\* variant of the label Endofleaves that increases the index and queues nothing
SurfaceRootIndexOnly(cx, nvars, k) ==
  IF cx.ret THEN cx
  ELSE [cx EXCEPT !.g.permindices[k] = @ + 1, !.eol = FALSE]

\* label Endofleaves: the index is increased and a necessary fixing below the root
\* is queued
SurfaceRoot(cx, nvars, k) ==
  IF cx.ret THEN cx
  ELSE LET c3 == [cx EXCEPT !.g.permindices[k] = @ + 1, !.eol = FALSE]
           node == c3.g.s1[k][ROOT]
       IN IF node # NULL /\ c3.g.ty[k][node] = SYMRETOPE_NECC
          THEN ReturnIfInfeasible(enqueueFixing(c3, nvars, c3.g.fx[k][node], c3.g.permpows[k]))
          ELSE c3

\* the queued fixings are applied
ApplyQueued(cx, nvars, nperms) ==
  IF cx.ret THEN cx ELSE ReturnIfInfeasible(applyFixings(cx, nvars, nperms))

\* read the branch values, extend the leaves, surface rule, applyFixings
IndexEvent(cx, P, nperms, k, i, j, permpow) ==
  LET nvars == P.nvars
      v1 == [l \in 0..1 |-> IF cx.g.leaves[k][l] = NULL THEN -1 ELSE BranchFixing(cx, nvars, k, i, l)]
      v2 == [l \in 0..1 |-> IF cx.g.leaves[k][l] = NULL THEN -1 ELSE BranchFixing(cx, nvars, k, j, l)]
      c0 == [getVarFixingEffect(getVarFixingEffect(cx, i, TRUE), j, TRUE) EXCEPT !.eol = FALSE]
  IN ApplyQueued(
       SurfaceRoot(
         ExtendSecondLeaf(ExtendLeaf(c0, nvars, k, 0, i, j, v1[0], v2[0], permpow),
                          nvars, k, i, j, v1[1], v2[1], permpow),
         nvars, k),
       nvars, nperms)

RECURSIVE IndexLoop(_, _, _, _, _)

\* the index increasing event for the pair (i, j), unless stopping condition C3 holds:
\* then the loop for tree k ends; c3 = [cx, holds] is what ConditionC3 yields
IndexLoopEvent(c3, P, nperms, k, i, j, permpow, support) ==
  IF c3.holds THEN c3.cx
  ELSE IndexLoop(IndexEvent(c3.cx, P, nperms, k, i, j, permpow), P, nperms, k, support)

\* the loop while(TRUE) for the tree k popped from the permutation queue
IndexLoop(cx, P, nperms, k, support) ==
  LET g == cx.g
      permpow == g.permpows[k]
      i_ == g.permindices[k]
  IN IF cx.ret THEN cx
     ELSE IF g.leaves[k][0] = NULL /\ g.leaves[k][1] = NULL THEN cx
     ELSE IF (~support.on /\ i_ >= P.nvars) \/ (support.on /\ i_ >= support.n) THEN cx
     ELSE
       LET i == IF support.on THEN support.arr[i_] ELSE i_
           j == permGet(P, i, -permpow)
       IN IF i = j
          THEN IndexLoop([cx EXCEPT !.g.permindices[k] = @ + 1], P, nperms, k, support)
          ELSE IndexLoopEvent(ConditionC3(MarkImpactful(MarkImpactful(cx, i), j),
                                          P, k, i, j, permpow),
                              P, nperms, k, i, j, permpow, support)

\* the loop over the permutation queue
RECURSIVE PermsLoop(_, _, _, _)
PermsLoop(cx, P, nperms, support) ==
  IF Len(cx.g.permsqueue) = 0 \/ cx.ret THEN cx
  ELSE LET k == cx.g.permsqueue[Len(cx.g.permsqueue)]
           c1 == [cx EXCEPT !.g.permsqueue = SubSeq(@, 1, Len(@) - 1),
                            !.g.permsinqueue[k] = FALSE]
       IN PermsLoop(IndexLoop(c1, P, nperms, k, support), P, nperms, support)

\* label Cleanup: the fixing queue is drained and the trees are removed
RECURSIVE ClearTrees(_, _, _)
ClearTrees(g, nperms, k) ==
  IF k >= nperms THEN g ELSE ClearTrees(removeSubtree(g, k, ROOT), nperms, k + 1)

\* variant that empties the fixing queue without clearing the flags of its fixings
CleanupKeepsQueueFlags(cx, nvars, nperms) ==
  [cx EXCEPT !.fq.fixingqueue = << >>,
             !.g = ClearTrees(cx.g, nperms, 0), !.ret = FALSE, !.eol = FALSE]

Cleanup(cx, nvars, nperms) ==
  LET q == cx.fq.fixingqueue
      inq == [v \in Vars(nvars) |->
                LET m0 == IF \E p \in 1..Len(q) : q[p] = v THEN FIXED0 ELSE 0
                    m1 == IF \E p \in 1..Len(q) : q[p] = v + nvars THEN FIXED1 ELSE 0
                IN BitClear(BitClear(cx.fq.fixinginqueue[v], m0), m1)]
  IN [cx EXCEPT !.fq.fixingqueue = << >>, !.fq.fixinginqueue = inq,
                !.g = ClearTrees(cx.g, nperms, 0), !.ret = FALSE, !.eol = FALSE]

\* variant that tracks the first power only when a support is given
TreeCountFirstPower(consnperms, basepow, support) ==
  IF support.on THEN Min2((support.n \div gcd(support.n, basepow)) - 1, 1) ELSE consnperms

\* number of trees that completeFixingsPerPermutation works on
TreeCount(consnperms, basepow, support) ==
  IF support.on THEN (support.n \div gcd(support.n, basepow)) - 1 ELSE consnperms

\* the trees of the powers (k+1)*basepow, k < nperms, are set up: an empty tree whose
\* first leaf is the root, index 0, every tree on the permutation queue
InitTrees(g0, nperms, basepow, support) ==
  LET K == 0..(nperms - 1)
  IN [g0 EXCEPT
        !.permpows = [k \in DOMAIN g0.permpows |->
            IF k \in K THEN (IF support.on THEN (k + 1) * basepow ELSE k + 1)
            ELSE g0.permpows[k]],
        !.ty = [k \in DOMAIN g0.ty |-> IF k \in K THEN [g0.ty[k] EXCEPT ![ROOT] = SYMRETOPE_ROOT] ELSE g0.ty[k]],
        !.s1 = [k \in DOMAIN g0.s1 |-> IF k \in K THEN [g0.s1[k] EXCEPT ![ROOT] = NULL] ELSE g0.s1[k]],
        !.s2 = [k \in DOMAIN g0.s2 |-> IF k \in K THEN [g0.s2[k] EXCEPT ![ROOT] = NULL] ELSE g0.s2[k]],
        !.pred = [k \in DOMAIN g0.pred |-> IF k \in K THEN [g0.pred[k] EXCEPT ![ROOT] = NULL] ELSE g0.pred[k]],
        !.leaves = [k \in DOMAIN g0.leaves |-> IF k \in K THEN [l \in 0..1 |-> IF l = 0 THEN ROOT ELSE NULL] ELSE g0.leaves[k]],
        !.permindices = [k \in DOMAIN g0.permindices |-> IF k \in K THEN 0 ELSE g0.permindices[k]],
        !.permsinqueue = [k \in DOMAIN g0.permsinqueue |-> IF k \in K THEN TRUE ELSE g0.permsinqueue[k]],
        !.permsqueue = [k \in 1..nperms |-> k - 1]]

\* the context at the start of completeFixingsPerPermutation
ResetOutputs(cx) ==
  [cx EXCEPT !.ngen = 0, !.infeasible = FALSE, !.ret = FALSE, !.eol = FALSE]

completeFixingsPerPermutation(cx, P, consnperms, basepow, support) ==
  LET nvars == P.nvars
      c0 == ResetOutputs(cx)
      nperms == TreeCount(consnperms, basepow, support)
  IN IF nvars < 2 \/ nperms <= 0 THEN c0
     ELSE Cleanup(PermsLoop([c0 EXCEPT !.g = InitTrees(c0.g, nperms, basepow, support)],
                            P, nperms, support),
                  nvars, nperms)

\* ---------------------------------------------------------------- orchestrators
NoSupport == [on |-> FALSE, n |-> -1, arr |-> << >>]

\* variant whose support is the first half of the cycle
CycleSupportFirstHalf(P, c) ==
  [on |-> TRUE, n |-> P.cyclelengths[c] \div 2, arr |-> P.cycles[c]]

\* the support of the fast path: the entries of cycle c, in the order of the cycle
CycleSupport(P, c) == [on |-> TRUE, n |-> P.cyclelengths[c], arr |-> P.cycles[c]]

\* call of completeFixingsPerPermutation followed by *ngen += newngen
CompleteAndCount(cx, cd, basepow, support) ==
  [ completeFixingsPerPermutation(cx, cd.permutation, cd.nperms, basepow, support)
    EXCEPT !.ngen = cx.ngen + @ ]

\* a hypothetical run on the overlay pvf: it shares the graph, the fixing queue and
\* checkedentries with the caller, and has its own infeasible flag and counter
PeekContext(cx, pvf, peekinfeasible) ==
  [cx EXCEPT !.vf = pvf, !.imp = [cx.imp EXCEPT !.on = FALSE, !.entries = << >>],
             !.infeasible = peekinfeasible, !.ngen = 0]

\* history of the hypothetical runs: what the run r, started from the context cx, left
\* of the bounds, of the inferred bound changes and of the conflict analyses, what it
\* reported, and the overlay it ended with
PeekEvent(cx, r) ==
  [bounds |-> (r.bounds = cx.bounds), commits |-> (r.commits = cx.commits),
   conflicts |-> (r.conflicts = cx.conflicts), infeasible |-> r.infeasible,
   ncommits |-> Len(cx.commits),
   free |-> {v \in DOMAIN cx.bounds : cx.bounds[v] = UNFIXED},
   overlay |-> [v \in DOMAIN cx.bounds |-> getVirtualFixing(r.vf, v)]]

\* what the caller keeps of a hypothetical run r
AfterPeek(cx, r) ==
  [cx EXCEPT !.g = r.g, !.fq = r.fq, !.checked = r.checked, !.cycles = r.cycles,
             !.peeks = Append(@, PeekEvent(cx, r))]

\* variant that searches the whole cycle for the first unfixed entry
RECURSIVE MinUnfixedInCycle(_, _, _, _)
MinUnfixedInCycle(cx, cycle, cyclen, i_) ==
  IF i_ >= cyclen THEN -1
  ELSE IF getVarFixingValue(cx, cycle[i_]) = UNFIXED THEN cycle[i_]
  ELSE MinUnfixedInCycle(getVarFixingEffect(cx, cycle[i_], FALSE), cycle, cyclen, i_ + 1)

\* first unfixed entry in the first half of the cycle, or -1
RECURSIVE MinUnfixedInFirstHalf(_, _, _, _)
MinUnfixedInFirstHalf(cx, cycle, cyclen, i_) ==
  IF i_ >= cyclen \div 2 THEN -1
  ELSE IF getVarFixingValue(cx, cycle[i_]) = UNFIXED THEN cycle[i_]
  ELSE MinUnfixedInFirstHalf(getVarFixingEffect(cx, cycle[i_], FALSE), cycle, cyclen, i_ + 1)

\* lookups of the loop that fills subcyclevalues: it stops at the first unfixed entry
RECURSIVE SubcycleLookups(_, _, _, _)
SubcycleLookups(cx, cycle, cyclen, i_) ==
  IF i_ >= cyclen THEN cx
  ELSE IF getVarFixingValue(cx, cycle[i_]) = UNFIXED
       THEN getVarFixingEffect(cx, cycle[i_], TRUE)
       ELSE SubcycleLookups(getVarFixingEffect(cx, cycle[i_], TRUE), cycle, cyclen, i_ + 1)

\* smallest k in 1..cyclen-1 such that the fixed subcycle equals its shift by k, else cyclen
MinimalShift(cx, cycle, cyclen) ==
  LET val(p) == IF getVarFixingValue(cx, cycle[p]) = FIXED1 THEN 1 ELSE 0
      ok(k) == \A p \in 0..(cyclen - 1) : val(p) = val((p + k) % cyclen)
      S == {k \in 1..(cyclen - 1) : ok(k)}
  IN IF S = {} THEN cyclen ELSE CHOOSE k \in S : \A m \in S : k <= m

\* variant that multiplies the equality power by the cycle length or the shift
UpdateEqpowProduct(cx, cycle, cyclen, eqpow) ==
  IF \E p \in 0..(cyclen - 1) : getVarFixingValue(cx, cycle[p]) = UNFIXED
  THEN eqpow * cyclen
  ELSE eqpow * MinimalShift(cx, cycle, cyclen)

\* "Update eqpow" at the end of the loop over the cycles
UpdateEqpow(cx, cycle, cyclen, eqpow) ==
  IF \E p \in 0..(cyclen - 1) : getVarFixingValue(cx, cycle[p]) = UNFIXED
  THEN lcm(eqpow, cyclen)
  ELSE lcm(eqpow, MinimalShift(cx, cycle, cyclen))

RECURSIVE propVariablesMonotoneOrderedHotstart(_, _, _, _, _)
RECURSIVE PeekLoopMonotoneOrdered(_, _, _, _, _)

\* the impactful entry that the peek loop pops, and the context after the pop
LastImpactful(cx) == cx.imp.entries[Len(cx.imp.entries)]

PopImpactful(cx) ==
  [cx EXCEPT !.imp.entries = SubSeq(@, 1, Len(@) - 1),
             !.imp.popped = Append(@, LastImpactful(cx))]

\* the value that the fast path tries for entry i
PeekValue(i, minunfixed) == IF i = minunfixed THEN FIXED0 ELSE FIXED1

\* variant that fixes the entry to the other value when the run did not refute value
PeekedUnrefuted(c2, r, i, value, cd, eqpow, c, minunfixed) ==
  IF r.infeasible
  THEN PeekLoopMonotoneOrdered(
         [cx |-> AfterPeek(c2, r), tightened |-> FALSE, peekinfeasible |-> FALSE,
          pvf |-> r.vf],
         cd, eqpow, c, minunfixed)
  ELSE LET c4 == setVarFixing(AfterPeek(c2, r), i,
                              IF value = FIXED0 THEN FIXED1 ELSE FIXED0, -1)
       IN IF c4.infeasible THEN c4
          ELSE PeekLoopMonotoneOrdered(
                 [cx |-> CountTightening(c4), tightened |-> c4.tightened,
                  peekinfeasible |-> TRUE, pvf |-> r.vf],
                 cd, eqpow, c, minunfixed)

\* the hypothetical run r from context c2 refuted value for entry i, or did not:
\* a refuted value fixes the entry to the other value
PeekedMonotoneOrdered(c2, r, i, value, cd, eqpow, c, minunfixed) ==
  IF ~r.infeasible
  THEN PeekLoopMonotoneOrdered(
         [cx |-> AfterPeek(c2, r), tightened |-> FALSE, peekinfeasible |-> FALSE,
          pvf |-> r.vf],
         cd, eqpow, c, minunfixed)
  ELSE LET c4 == setVarFixing(AfterPeek(c2, r), i,
                              IF value = FIXED0 THEN FIXED1 ELSE FIXED0, -1)
       IN IF c4.infeasible THEN c4
          ELSE PeekLoopMonotoneOrdered(
                 [cx |-> CountTightening(c4), tightened |-> c4.tightened,
                  peekinfeasible |-> TRUE, pvf |-> r.vf],
                 cd, eqpow, c, minunfixed)

\* entry i of the peek loop, c1 being the context after the fixings were completed
\* again: a fixed entry is skipped, a free one gets a hypothetical run
PeekEntryMonotoneOrdered(st, c1, i, cd, eqpow, c, minunfixed) ==
  LET c2 == getVarFixingEffect(c1, i, TRUE)
      value == PeekValue(i, minunfixed)
      pvf == setVirtualFixing(clearVirtualFixings(st.pvf), i, value)
  IN IF st.tightened /\ c1.infeasible THEN c1
     ELSE IF getVarFixingValue(c1, i) # UNFIXED
     THEN PeekLoopMonotoneOrdered([st EXCEPT !.cx = c2, !.tightened = FALSE],
                                  cd, eqpow, c, minunfixed)
     ELSE PeekedMonotoneOrdered(
            c2, propVariablesMonotoneOrderedHotstart(
                  PeekContext(c2, pvf, st.peekinfeasible), cd, FALSE, eqpow, c),
            i, value, cd, eqpow, c, minunfixed)

\* the peek loop of the fast path for cycle c; st = [cx, tightened, peekinfeasible, pvf]
PeekLoopMonotoneOrdered(st, cd, eqpow, c, minunfixed) ==
  IF Len(st.cx.imp.entries) = 0 THEN st.cx
  ELSE PeekEntryMonotoneOrdered(
         st, IF st.tightened
             THEN CompleteAndCount(PopImpactful(st.cx), cd, eqpow,
                                   CycleSupport(cd.permutation, c))
             ELSE PopImpactful(st.cx),
         LastImpactful(st.cx), cd, eqpow, c, minunfixed)

\* the end of the loop body for cycle c: lookups of the subcycle, update of eqpow
HotstartNextCycle(cx, cd, findcompleteset, eqpow, c) ==
  LET cycle == cd.permutation.cycles[c]
      cyclen == cd.permutation.cyclelengths[c]
  IN propVariablesMonotoneOrderedHotstart(
       SubcycleLookups(cx, cycle, cyclen, 0), cd, findcompleteset,
       UpdateEqpow(cx, cycle, cyclen, eqpow), c + 1)

\* variant that goes on to the next cycle when the completion on cycle c was infeasible
HotstartPeekGoesOn(c1, virtual, cd, findcompleteset, eqpow, c) ==
  LET P == cd.permutation
  IN HotstartNextCycle(
       IF ~virtual /\ findcompleteset /\ ~c1.infeasible
       THEN PeekLoopMonotoneOrdered(
              [cx |-> c1, tightened |-> FALSE, peekinfeasible |-> FALSE,
               pvf |-> allocVirtualFixings(P.nvars)],
              cd, eqpow, c,
              MinUnfixedInFirstHalf(c1, P.cycles[c], P.cyclelengths[c], 0))
       ELSE c1,
       cd, findcompleteset, eqpow, c)

\* c1 is the context after the completion on cycle c: return when infeasible, else
\* the peek loop when peeking is on (virtual is TRUE in a hypothetical run)
HotstartPeek(c1, virtual, cd, findcompleteset, eqpow, c) ==
  LET P == cd.permutation
  IN IF c1.infeasible THEN c1
     ELSE HotstartNextCycle(
            IF ~virtual /\ findcompleteset
            THEN PeekLoopMonotoneOrdered(
                   [cx |-> c1, tightened |-> FALSE, peekinfeasible |-> FALSE,
                    pvf |-> allocVirtualFixings(P.nvars)],
                   cd, eqpow, c,
                   MinUnfixedInFirstHalf(c1, P.cycles[c], P.cyclelengths[c], 0))
            ELSE c1,
            cd, findcompleteset, eqpow, c)

\* history of the loop over the cycles of the fast path: the context records, at the
\* head of each iteration ("head") and after the fixings of the cycle were completed
\* ("base"), the cycle, the equality power, the number of trees that the implication
\* graph was allocated for, whether the run is hypothetical and what getVarFixing
\* answers for each variable
CycleEvent(cx, at, eqpow, c) ==
  [cx EXCEPT !.cycles =
     Append(@, [at |-> at, c |-> c, eqpow |-> eqpow,
                arena |-> Cardinality(DOMAIN cx.g.permpows),
                virtual |-> cx.vf.on, infeasible |-> cx.infeasible,
                fixings |-> [v \in DOMAIN cx.bounds |-> getVarFixingValue(cx, v)]])]

EnterCycle(cx, eqpow, c) == CycleEvent(cx, "head", eqpow, c)

CycleCompleted(cx, eqpow, c) == CycleEvent(cx, "base", eqpow, c)

\* body of the loop over the cycles, from cycle c on
propVariablesMonotoneOrderedHotstart(cx, cd, findcompleteset, eqpow, c) ==
  LET P == cd.permutation
      cl == EnterCycle(cx, eqpow, c)
  IN IF c >= P.ncycles \/ eqpow = P.order THEN cl
     ELSE IF eqpow % P.cyclelengths[c] = 0
     THEN propVariablesMonotoneOrderedHotstart(cl, cd, findcompleteset, eqpow, c + 1)
     ELSE HotstartPeek(
            CycleCompleted(CompleteAndCount(cl, cd, eqpow, CycleSupport(P, c)), eqpow, c),
            cx.vf.on, cd, findcompleteset, eqpow, c)

\* propVariablesMonotoneOrdered: fresh graph and fixing queue, eqpow 1, colour 0
propVariablesMonotoneOrdered(cx, cd, findcompleteset) ==
  LET P == cd.permutation
      imp == IF ~cx.vf.on /\ findcompleteset
             THEN [cx.imp EXCEPT !.on = TRUE, !.entries = << >>,
                                 !.is = [v \in Vars(P.nvars) |-> FALSE]]
             ELSE [cx.imp EXCEPT !.on = FALSE, !.entries = << >>,
                                 !.is = [v \in Vars(P.nvars) |-> FALSE]]
  IN propVariablesMonotoneOrderedHotstart(
       [cx EXCEPT !.g = allocSymretopeGraph(P.nvars, P.maxcyclesize - 1),
                  !.fq = allocFixingQueue(P.nvars), !.imp = imp],
       cd, findcompleteset, 1, 0)

RECURSIVE PeekLoopStandard(_, _)

\* the hypothetical run from context cx with entry i fixed to value on the overlay pvf
PeekRun(cx, pvf, i, value, peekinfeasible, cd) ==
  completeFixingsPerPermutation(
    PeekContext(cx, setVirtualFixing(clearVirtualFixings(pvf), i, value), peekinfeasible),
    cd.permutation, cd.nperms, 1, NoSupport)

\* cx is the context after the converse of a refuted value was set
PeekFixedStandard(cx, pvf, cd) ==
  IF cx.infeasible THEN cx
  ELSE PeekLoopStandard([cx |-> CountTightening(cx), tightened |-> cx.tightened,
                         peekinfeasible |-> TRUE, pvf |-> pvf], cd)

\* what if variable i is 1? r1 is the hypothetical run from context a0
PeekedOne(a0, r1, i, cd) ==
  IF r1.infeasible
  THEN PeekFixedStandard(setVarFixing(AfterPeek(a0, r1), i, FIXED0, -1), r1.vf, cd)
  ELSE PeekLoopStandard([cx |-> AfterPeek(a0, r1), tightened |-> FALSE,
                         peekinfeasible |-> FALSE, pvf |-> r1.vf], cd)

\* what if variable i is 0? r0 is the hypothetical run from context c1
PeekedZero(c1, r0, i, cd) ==
  IF r0.infeasible
  THEN PeekFixedStandard(setVarFixing(AfterPeek(c1, r0), i, FIXED1, -1), r0.vf, cd)
  ELSE PeekedOne(AfterPeek(c1, r0),
                 PeekRun(AfterPeek(c1, r0), r0.vf, i, FIXED1, r0.infeasible, cd), i, cd)

\* entry i of the peek loop, c1 being the context after the fixings were completed
\* again: an entry with a fixed problem bound is skipped
PeekEntryStandard(st, c1, i, cd) ==
  IF st.tightened /\ c1.infeasible THEN c1
  ELSE IF c1.bounds[i] # UNFIXED /\ c1.upb
  THEN PeekLoopStandard([st EXCEPT !.cx = c1, !.tightened = FALSE], cd)
  ELSE PeekedZero(c1, PeekRun(c1, st.pvf, i, FIXED0, st.peekinfeasible, cd), i, cd)

\* the peek loop of the general path; st = [cx, tightened, peekinfeasible, pvf]
PeekLoopStandard(st, cd) ==
  IF Len(st.cx.imp.entries) = 0 THEN st.cx
  ELSE PeekEntryStandard(
         st, IF st.tightened
             THEN CompleteAndCount(PopImpactful(st.cx), cd, 1, NoSupport)
             ELSE PopImpactful(st.cx),
         LastImpactful(st.cx), cd)

\* c1 is the context after the completion: return when infeasible, else the peek
\* loop when peeking is on (virtual is TRUE in a hypothetical run)
StandardPeek(c1, virtual, cd, dopeek) ==
  IF c1.infeasible THEN c1
  ELSE IF ~virtual /\ dopeek
  THEN PeekLoopStandard([cx |-> c1, tightened |-> FALSE, peekinfeasible |-> FALSE,
                         pvf |-> allocVirtualFixings(cd.permutation.nvars)], cd)
  ELSE c1

\* propVariablesStandard; garbage is the content of the buffer that entryisimpactful
\* is given without being cleared
propVariablesStandard(cx, cd, dopeek, garbage) ==
  LET P == cd.permutation
      imp == IF ~cx.vf.on /\ dopeek
             THEN [cx.imp EXCEPT !.on = TRUE, !.entries = << >>, !.is = garbage]
             ELSE [cx.imp EXCEPT !.on = FALSE, !.entries = << >>, !.is = garbage]
      c0 == [cx EXCEPT !.g = allocSymretopeGraph(P.nvars, cd.nperms),
                       !.fq = allocFixingQueue(P.nvars), !.imp = imp]
  IN StandardPeek(CompleteAndCount(c0, cd, 1, NoSupport), cx.vf.on, cd, dopeek)

\* propVariables: the fast path for a monotone and ordered permutation, else the general path
propVariables(cx, cd, symretopepeek, probingpeek, inProbing, garbage) ==
  LET findcompleteset == symretopepeek /\ (IF inProbing THEN probingpeek ELSE TRUE)
  IN IF cd.permutation.ismonotone /\ cd.permutation.isordered
     THEN propVariablesMonotoneOrdered(cx, cd, findcompleteset)
     ELSE propVariablesStandard(cx, cd, findcompleteset, garbage)

\* ---------------------------------------------------------------- resolveSymretopeConflictVariables
\* the scan of resolveSymretopeConflictVariables from index i on: vfx are its local
\* fixings, S the bounds added to the conflict, at the bounds at bdchgidx
RECURSIVE ResolveScan(_, _, _, _, _, _, _)
ResolveScan(P, infervar, permpow, at, i, vfx, S) ==
  IF i >= P.nvars THEN S
  ELSE
    LET j == permGet(P, i, -permpow)
        next(v, T) == ResolveScan(P, infervar, permpow, at, i + 1, v, T)
    IN IF i = j THEN next(vfx, S)
       ELSE IF vfx[i] = FIXED0 /\ vfx[j] = FIXED1 THEN S
       ELSE IF vfx[i] = FIXED0
       THEN IF at[j] = FIXED1 THEN S \cup {[var |-> j, val |-> FIXED1]}
            ELSE next([vfx EXCEPT ![j] = FIXED0], S)
       ELSE IF vfx[j] = FIXED1
       THEN IF at[i] = FIXED0 THEN S \cup {[var |-> i, val |-> FIXED0]}
            ELSE next([vfx EXCEPT ![i] = FIXED1], S)
       ELSE
         LET \* "if var i is fixed to 0"
             S1 == IF at[i] = FIXED0 THEN S \cup {[var |-> i, val |-> FIXED0]} ELSE S
             brk1 == at[i] = FIXED0 /\ at[j] = FIXED1
             S1b == IF j # infervar THEN S1 \cup {[var |-> j, val |-> FIXED1]} ELSE S1
             v1 == IF at[i] = FIXED0 THEN [vfx EXCEPT ![i] = FIXED0, ![j] = FIXED0] ELSE vfx
             \* "if var j is fixed to 1"
             S2 == IF at[j] = FIXED1 THEN S1 \cup {[var |-> j, val |-> FIXED1]} ELSE S1
             brk2 == at[j] = FIXED1 /\ at[i] = FIXED0
             S2b == IF i # infervar THEN S2 \cup {[var |-> i, val |-> FIXED0]} ELSE S2
             v2 == IF at[j] = FIXED1 THEN [v1 EXCEPT ![j] = FIXED1, ![i] = FIXED1] ELSE v1
         IN IF brk1 THEN S1b
            ELSE IF brk2 THEN S2b
            ELSE next(v2, S2)

\* how the scan of resolveSymretopeConflictVariables from index i on ends: "break" at
\* a (0, 1) pair, "past end" when the loop runs out, or the assertion that fails first:
\* "(1, 0)" for a (1, 0) pair, "undetermined" for a pair with no value on either side,
\* "half" for a pair with a value on one side only
RECURSIVE ResolveScanEnd(_, _, _, _, _)
ResolveScanEnd(P, permpow, at, i, vfx) ==
  IF i >= P.nvars THEN "past end"
  ELSE
    LET j == permGet(P, i, -permpow)
        next(v) == ResolveScanEnd(P, permpow, at, i + 1, v)
    IN IF i = j THEN next(vfx)
       ELSE IF vfx[i] = FIXED0 /\ vfx[j] = FIXED1 THEN "break"
       ELSE IF vfx[i] = FIXED0
       THEN IF at[j] = FIXED1 THEN "break" ELSE next([vfx EXCEPT ![j] = FIXED0])
       ELSE IF vfx[j] = FIXED1
       THEN IF at[i] = FIXED0 THEN "break" ELSE next([vfx EXCEPT ![i] = FIXED1])
       ELSE IF vfx[i] = FIXED1 /\ vfx[j] = FIXED0 THEN "(1, 0)"
       ELSE
         LET v1 == IF at[i] = FIXED0 THEN [vfx EXCEPT ![i] = FIXED0, ![j] = FIXED0] ELSE vfx
             v2 == IF at[j] = FIXED1 THEN [v1 EXCEPT ![j] = FIXED1, ![i] = FIXED1] ELSE v1
         IN IF at[i] = FIXED0 /\ at[j] = FIXED1 THEN "break"
            ELSE IF v2[i] = UNFIXED /\ v2[j] = UNFIXED THEN "undetermined"
            ELSE IF v2[i] = UNFIXED \/ v2[j] = UNFIXED THEN "half"
            ELSE IF v2[i] = FIXED1 /\ v2[j] = FIXED0 THEN "(1, 0)"
            ELSE next(v2)

\* variant that starts from the inferred value of infervar
ResolveStartInferred(P, infervar, upper) ==
  [v \in Vars(P.nvars) |->
     IF v = infervar THEN (IF upper THEN FIXED0 ELSE FIXED1) ELSE UNFIXED]

\* the local vector that resolveSymretopeConflictVariables starts from
ResolveStart(P, infervar, upper) ==
  [v \in Vars(P.nvars) |->
     IF v = infervar THEN (IF upper THEN FIXED1 ELSE FIXED0) ELSE UNFIXED]

\* variant that starts the scan from the inferred value of infervar, not its opposite
resolveFromInferredValue(P, infervar, upper, permpow, at) ==
  LET vfx == [v \in Vars(P.nvars) |->
                IF v = infervar THEN (IF upper THEN FIXED0 ELSE FIXED1) ELSE UNFIXED]
  IN ResolveScan(P, infervar, permpow, at, 0, vfx, {})

\* infervar = -1 stands for the NULL variable; upper: boundtype is SCIP_BOUNDTYPE_UPPER
resolveSymretopeConflictVariables(P, infervar, upper, permpow, at) ==
  LET vfx == [v \in Vars(P.nvars) |->
                IF v = infervar THEN (IF upper THEN FIXED1 ELSE FIXED0) ELSE UNFIXED]
  IN ResolveScan(P, infervar, permpow, at, 0, vfx, {})

\* ---------------------------------------------------------------- setVarFixingTest
\* the scan of setVarFixingTest from index i on at the local bounds loc; TRUE when it
\* stops at a (0, 1) pair with no assertion failing before
RECURSIVE FixingTestScan(_, _, _, _, _)
FixingTestScan(P, permpow, loc, i, vfx) ==
  IF i >= P.nvars THEN FALSE
  ELSE
    LET j == permGet(P, i, -permpow)
        fixi == IF vfx[i] # UNFIXED THEN vfx[i] ELSE loc[i]
        fixj == IF vfx[j] # UNFIXED THEN vfx[j] ELSE loc[j]
        v1 == IF fixi = FIXED0 /\ fixj = UNFIXED THEN [vfx EXCEPT ![j] = FIXED0] ELSE vfx
        v2 == IF fixj = FIXED1 /\ fixi = UNFIXED THEN [v1 EXCEPT ![i] = FIXED1] ELSE v1
    IN IF i = j THEN FixingTestScan(P, permpow, loc, i + 1, vfx)
       ELSE IF fixi = FIXED0 /\ fixj = FIXED1 THEN TRUE
       ELSE IF \/ (fixi = FIXED1 /\ fixj = FIXED0) \/ (fixi = UNFIXED /\ fixj = FIXED0)
               \/ (fixi = FIXED1 /\ fixj = UNFIXED) \/ (fixi = UNFIXED /\ fixj = UNFIXED)
       THEN FALSE
       ELSE FixingTestScan(P, permpow, loc, i + 1, v2)

\* setVarFixingTest: whether all its assertions hold (trivially for permpow < 0)
setVarFixingTest(P, loc, varid, fixing, permpow) ==
  IF permpow < 0 THEN TRUE
  ELSE FixingTestScan(P, permpow, loc, 0,
         [v \in Vars(P.nvars) |->
            IF v = varid THEN (IF fixing = FIXED0 THEN FIXED1 ELSE FIXED0) ELSE UNFIXED])

\* ---------------------------------------------------------------- consdataCreate
\* number of tracked powers that consdataCreate stores in consdata->nperms
TrackedPowers(order, nvars, maxorder, maxordernvars) ==
  LET n0 == Min2(order - 1, INT_MAX)
      n1 == IF maxorder > 0 /\ n0 > maxorder THEN maxorder ELSE n0
      n2 == IF maxordernvars > 0 /\ n1 * nvars > maxordernvars
            THEN (IF maxordernvars \div nvars <= 0 THEN 1 ELSE maxordernvars \div nvars)
            ELSE n1
  IN n2

\* the low 32 bits of a * b as a signed int, for 0 <= a, b <= INT_MAX, from 16-bit
\* halves and 8-bit quarters so that no intermediate value leaves the int range
Mul32(a, b) ==
  LET ah == a \div 65536
      al == a % 65536
      bh == b \div 65536
      bl == b % 65536
      t  == (al \div 256) * bl
      lo == (al % 256) * bl + (t % 256) * 256
      hi == ((t \div 256) + (lo \div 65536) + ((ah * bl) % 65536) + ((al * bh) % 65536)) % 65536
  IN (IF hi >= 32768 THEN hi - 65536 ELSE hi) * 65536 + (lo % 65536)

\* what the int product nperms * nvars can be: beyond INT_MAX the behaviour is
\* undefined, and the build wraps the product or traps
ProductOutcomes(a, b) ==
  IF b > 0 /\ a > INT_MAX \div b
  THEN {[fault |-> TRUE, value |-> 0], [fault |-> FALSE, value |-> Mul32(a, b)]}
  ELSE {[fault |-> FALSE, value |-> a * b]}

\* what consdataCreate can store in consdata->nperms, with the products of the
\* warning condition and of the second cap as the build computes them
TrackedPowersOutcomes(order, nvars, maxorder, maxordernvars) ==
  LET n0 == Min2(order - 1, INT_MAX)
      warned == IF n0 > maxorder THEN {[fault |-> FALSE, value |-> 0]}
                ELSE ProductOutcomes(n0, nvars)
      n1 == IF maxorder > 0 /\ n0 > maxorder THEN maxorder ELSE n0
      capped == IF maxordernvars > 0 THEN ProductOutcomes(n1, nvars)
                ELSE {[fault |-> FALSE, value |-> 0]}
  IN {[fault |-> w.fault \/ c.fault,
       nperms |-> IF maxordernvars > 0 /\ c.value > maxordernvars
                  THEN (IF maxordernvars \div nvars <= 0 THEN 1 ELSE maxordernvars \div nvars)
                  ELSE n1] : w \in warned, c \in capped}

\* constraint data of a constraint of the transformed problem on the compacted
\* permutation perm of nvars affected variables
consdataCreate(perm, nvars, ismodelcons, hdlr) ==
  LET P == SCIPgetPermutation(perm, nvars)
  IN [ permutation |-> P,
       nvars |-> nvars,
       nperms |-> TrackedPowers(P.order, nvars, hdlr.maxorder, hdlr.maxordernvars),
       ismodelcons |-> ismodelcons,
       execprop |-> TRUE,
       affectedentries |-> [v \in Vars(nvars) |-> FALSE] ]

\* ---------------------------------------------------------------- SCIPcreateConsSymretope
\* entry i of the array indexcorrection that consdataCreate fills
RECURSIVE IndexCorrection(_, _, _)
IndexCorrection(inputperm, binary, i) ==
  IF inputperm[i] # i /\ binary[i]
  THEN (IF i = 0 THEN 0 ELSE IndexCorrection(inputperm, binary, i - 1) + 1)
  ELSE (IF i > 0 THEN IndexCorrection(inputperm, binary, i - 1) ELSE -1)

\* the input indices that the second loop of consdataCreate copies, in its order
RECURSIVE KeptIndices(_, _, _, _)
KeptIndices(inputperm, binary, inputnvars, i) ==
  IF i >= inputnvars THEN << >>
  ELSE (IF (i = 0 /\ IndexCorrection(inputperm, binary, 0) > -1)
           \/ (i > 0 /\ IndexCorrection(inputperm, binary, i)
                          > IndexCorrection(inputperm, binary, i - 1))
        THEN << i >> ELSE << >>) \o KeptIndices(inputperm, binary, inputnvars, i + 1)

\* the copied indices whose entry of inputperm lies outside the array indexcorrection
StrayReads(inputperm, inputnvars, kept) ==
  {j \in 0..(Len(kept) - 1) : inputperm[kept[j + 1]] \notin Vars(inputnvars)}

\* the arrays perm that the second loop can leave: perm[j] = indexcorrection[inputperm[i]],
\* and a read outside the array is undefined: it yields some int, or traps
CompactedPerms(inputperm, binary, inputnvars, kept) ==
  {[j \in 0..(Len(kept) - 1) |->
      IF j \in DOMAIN g THEN g[j]
      ELSE IndexCorrection(inputperm, binary, inputperm[kept[j + 1]])] :
     g \in [StrayReads(inputperm, inputnvars, kept) -> (-1)..inputnvars]}

\* the call does not return
Fault == [retcode |-> "fault", conss |-> << >>]

\* the end of consdataCreate on the permutation object P: the caps, the events
ConsdataOn(P, kept, ismodelcons, hdlr) ==
  {IF t.fault THEN Fault
   ELSE [retcode |-> "SCIP_OKAY",
         conss |-> << [ permutation |-> P,
                        nvars |-> P.nvars,
                        nperms |-> t.nperms,
                        ismodelcons |-> ismodelcons,
                        execprop |-> TRUE,
                        affectedentries |-> [v \in Vars(P.nvars) |-> FALSE],
                        vars |-> kept ] >>] :
     t \in TrackedPowersOutcomes(P.order, P.nvars, hdlr.maxorder, hdlr.maxordernvars)}

\* SCIPgetPermutation on the array perm and the rest of consdataCreate; on an array
\* that is no permutation of 0..n-1 the walks of SCIPgetPermutation leave the array
\* or never come back to their start
BuiltOn(perm, kept, ismodelcons, hdlr) ==
  IF /\ \A j \in DOMAIN perm : perm[j] \in DOMAIN perm
     /\ \A j, h \in DOMAIN perm : j # h => perm[j] # perm[h]
  THEN ConsdataOn(SCIPgetPermutation(perm, Len(kept)), kept, ismodelcons, hdlr)
  ELSE {Fault}

\* consdataCreate past the count of the affected variables
Compacted(inputperm, binary, inputnvars, kept, ismodelcons, hdlr) ==
  IF Len(kept) = 0
  THEN {[retcode |-> "SCIP_OKAY",
         conss |-> << [ permutation |-> NULL, nvars |-> 0, nperms |-> 0,
                        ismodelcons |-> ismodelcons, vars |-> << >> ] >>]}
  ELSE (IF StrayReads(inputperm, inputnvars, kept) = {} THEN {} ELSE {Fault})
       \cup UNION {BuiltOn(perm, kept, ismodelcons, hdlr) :
                     perm \in CompactedPerms(inputperm, binary, inputnvars, kept)}

\* what SCIPcreateConsSymretope can do on inputnvars variables, of which binary tells
\* the binary ones, and the array inputperm: the return code and the constraint made.
\* Without variables indexcorrection[0] and indexcorrection[-1] lie outside the
\* array: the call traps, or goes on with some count; the count 0 is followed here
SCIPcreateConsSymretope(inputperm, binary, inputnvars, ismodelcons, hdlr) ==
  IF inputnvars = 0
  THEN {Fault} \cup Compacted(inputperm, binary, inputnvars, << >>, ismodelcons, hdlr)
  ELSE Compacted(inputperm, binary, inputnvars,
                 KeptIndices(inputperm, binary, inputnvars, 0), ismodelcons, hdlr)

\* ---------------------------------------------------------------- eventExec
\* variant that asks for propagation at every event, whatever the variable
eventExecEveryVariable(cd, varid) ==
  IF ~cd.execprop THEN [cd EXCEPT !.execprop = TRUE] ELSE cd

\* eventExec: the event of variable varid asks for propagation when the last run of
\* the constraint looked the variable up
eventExec(cd, varid) ==
  IF ~cd.execprop /\ cd.affectedentries[varid] THEN [cd EXCEPT !.execprop = TRUE] ELSE cd

\* the variable-changed events of a sequence of changed variables, in order
RECURSIVE eventsExec(_, _, _)
eventsExec(cd, changed, p) ==
  IF p > Len(changed) THEN cd ELSE eventsExec(eventExec(cd, changed[p]), changed, p + 1)

\* ---------------------------------------------------------------- checkSymretopeSolution
\* variant that pairs entry i with the entry at gamma^k(i) instead of gamma^-k(i)
RECURSIVE CheckPowerForward(_, _, _, _)
CheckPowerForward(P, sol, k, i) ==
  IF i >= P.nvars THEN "next"
  ELSE LET j == permGet(P, i, k)
       IN IF sol[i] < sol[j] THEN "infeasible"
          ELSE IF sol[i] > sol[j] THEN "next"
          ELSE CheckPowerForward(P, sol, k, i + 1)

\* the loop over i for power k: "infeasible", or "next" when the loop ends or breaks
RECURSIVE CheckPower(_, _, _, _)
CheckPower(P, sol, k, i) ==
  IF i >= P.nvars THEN "next"
  ELSE LET j == permGet(P, i, -k)
       IN IF sol[i] < sol[j] THEN "infeasible"
          ELSE IF sol[i] > sol[j] THEN "next"
          ELSE CheckPower(P, sol, k, i + 1)

RECURSIVE CheckPowers(_, _, _, _)
CheckPowers(cd, sol, result, k) ==
  IF k > cd.nperms THEN result
  ELSE IF CheckPower(cd.permutation, sol, k, 0) = "infeasible" THEN "SCIP_INFEASIBLE"
  ELSE CheckPowers(cd, sol, result, k + 1)

\* result is the value of *result at the call
checkSymretopeSolution(cd, sol, result) ==
  IF cd.nvars < 2 THEN result ELSE CheckPowers(cd, sol, result, 1)

\* ---------------------------------------------------------------- consCheckSymretope
RECURSIVE CheckLoop(_, _, _, _)
CheckLoop(cs, sol, result, c) ==
  IF c > Len(cs) THEN result
  ELSE IF ~cs[c].ismodelcons THEN CheckLoop(cs, sol, result, c + 1)
  ELSE LET r == checkSymretopeSolution(cs[c], sol, result)
       IN IF r = "SCIP_INFEASIBLE" THEN r ELSE CheckLoop(cs, sol, r, c + 1)

consCheckSymretope(cs, sol) == CheckLoop(cs, sol, "SCIP_FEASIBLE", 1)

\* ---------------------------------------------------------------- consPropSymretope
\* the context of a call of propVariables for constraint c
Context(c, n, bnds, cmts, vf, upb, checked) ==
  [ cons |-> c, bounds |-> bnds, commits |-> cmts, conflicts |-> << >>,
    vf |-> vf, upb |-> upb, checked |-> checked,
    imp |-> [on |-> FALSE, entries |-> << >>, is |-> [v \in Vars(n) |-> FALSE],
            seen |-> {}, put |-> << >>, popped |-> << >>],
    g |-> allocSymretopeGraph(n, 0), fq |-> allocFixingQueue(n),
    infeasible |-> FALSE, ngen |-> 0, tightened |-> FALSE, ret |-> FALSE, eol |-> FALSE,
    cycles |-> << >>, peeks |-> << >> ]

FindCompleteSet(hdlr, inProbing) ==
  hdlr.symretopepeek /\ (IF inProbing THEN hdlr.probingpeek ELSE TRUE)

\* the state of the callback after propVariables left the context r for constraint c;
\* st = [conss, bounds, commits, runs, success, result, stop]
Propagated(st, c, r, hdlr, inProbing) ==
  LET cd == st.conss[c]
      changed == [p \in 1..(Len(r.commits) - Len(st.commits)) |->
                    r.commits[Len(st.commits) + p].var]
      conss1 == [d \in 1..Len(st.conss) |->
                   IF d = c
                   THEN [cd EXCEPT !.affectedentries = r.checked.at, !.execprop = r.infeasible]
                   ELSE eventsExec(st.conss[d], changed, 1)]
      run == [cons |-> c, entry |-> st.bounds, exit |-> r.bounds, infeasible |-> r.infeasible,
              ngen |-> r.ngen, findcompleteset |-> FindCompleteSet(hdlr, inProbing),
              probing |-> inProbing,
              first |-> Len(st.commits) + 1, last |-> Len(r.commits),
              conflicts |-> r.conflicts, cycles |-> r.cycles, peeks |-> r.peeks]
  IN [st EXCEPT !.conss = conss1, !.bounds = r.bounds, !.commits = r.commits,
                !.runs = Append(@, run),
                !.success = IF r.infeasible THEN @ ELSE (@ \/ r.ngen > 0),
                !.result = IF r.infeasible THEN "SCIP_CUTOFF" ELSE "SCIP_DIDNOTFIND",
                !.stop = r.infeasible]

\* body of the loop over the constraints in consPropSymretope for constraint c
PropagateCons(st, c, hdlr, inProbing, garbage) ==
  LET cd == st.conss[c]
      n == cd.nvars
      cx == Context(c, n, st.bounds, st.commits, NoVirtualFixings(n), TRUE,
                    [on |-> TRUE, at |-> [v \in Vars(n) |-> FALSE]])
  IN IF ~cd.execprop THEN st
     ELSE Propagated(st, c, propVariables(cx, cd, hdlr.symretopepeek, hdlr.probingpeek,
                                          inProbing, garbage),
                     hdlr, inProbing)

RECURSIVE PropagateLoop(_, _, _, _, _)
PropagateLoop(st, c, hdlr, inProbing, garb) ==
  IF c > Len(st.conss) \/ st.stop THEN st
  ELSE PropagateLoop(PropagateCons(st, c, hdlr, inProbing, garb[c]), c + 1, hdlr, inProbing, garb)

\* variant that reports a reduced domain whenever some run counted a fixing, also
\* when a later constraint was found infeasible
consPropSuccessFirst(cs, bnds, cmts, hdlr, inProbing, garb) ==
  LET Result(st) == IF st.success THEN [st EXCEPT !.result = "SCIP_REDUCEDDOM"] ELSE st
  IN Result(PropagateLoop([conss |-> cs, bounds |-> bnds, commits |-> cmts, runs |-> << >>,
                           success |-> FALSE, result |-> "SCIP_DIDNOTRUN", stop |-> FALSE],
                          1, hdlr, inProbing, garb))

\* consPropSymretope: SCIP_CUTOFF on the first infeasible constraint, else
\* SCIP_REDUCEDDOM when a fixing was counted, else SCIP_DIDNOTFIND
consPropSymretope(cs, bnds, cmts, hdlr, inProbing, garb) ==
  LET Result(st) ==
        IF ~st.stop /\ st.success THEN [st EXCEPT !.result = "SCIP_REDUCEDDOM"] ELSE st
  IN Result(PropagateLoop([conss |-> cs, bounds |-> bnds, commits |-> cmts, runs |-> << >>,
                           success |-> FALSE, result |-> "SCIP_DIDNOTRUN", stop |-> FALSE],
                          1, hdlr, inProbing, garb))

\* ---------------------------------------------------------------- consRespropSymretope
\* variant that takes only the upper bounds at bdchgidx into the overlay
RECURSIVE BoundsAsFixingsUpperOnly(_, _, _, _)
BoundsAsFixingsUpperOnly(vf, at, n, j) ==
  IF j >= n THEN vf
  ELSE BoundsAsFixingsUpperOnly(IF at[j] = FIXED0 THEN setVirtualFixing(vf, j, at[j]) ELSE vf,
                                at, n, j + 1)

\* the bounds at bdchgidx as virtual fixings, variable by variable
RECURSIVE BoundsAsFixings(_, _, _, _)
BoundsAsFixings(vf, at, n, j) ==
  IF j >= n THEN vf
  ELSE BoundsAsFixings(IF at[j] # UNFIXED THEN setVirtualFixing(vf, j, at[j]) ELSE vf, at, n, j + 1)

\* a run of propVariables on virtual fixings only (useproblembounds FALSE)
HypotheticalRun(cd, hdlr, bnds, vf, checked) ==
  propVariables(Context(0, cd.nvars, bnds, << >>, vf, FALSE, checked), cd,
                hdlr.symretopepeek, hdlr.probingpeek, FALSE, [v \in Vars(cd.nvars) |-> FALSE])

\* the fixings kept for the test "is entry i needed": replay of the initial stack
RECURSIVE ReplayWithout(_, _, _, _, _, _)
ReplayWithout(vf, initial, ce, infervarid, i, p) ==
  IF p > Len(initial.entrystack) THEN vf
  ELSE LET entry == initial.entrystack[p]
       IN ReplayWithout(
            IF entry = infervarid \/ (entry # i /\ ce[entry])
            THEN setVirtualFixing(vf, entry, initial.entrylookup[entry]) ELSE vf,
            initial, ce, infervarid, i, p + 1)

RECURSIVE Sparsify(_, _, _, _, _, _, _, _)

\* r is the run without entry i: the entry is dropped when the run stays infeasible
SparsifyTested(cd, hdlr, bnds, r, initial, ce, infervarid, i) ==
  Sparsify(cd, hdlr, bnds, r.vf, initial,
           IF r.infeasible THEN [ce EXCEPT ![i] = FALSE] ELSE ce, infervarid, i + 1)

\* the sparsification loop from entry i on; yields conflictentries
Sparsify(cd, hdlr, bnds, vf, initial, ce, infervarid, i) ==
  IF i >= cd.nvars THEN ce
  ELSE IF i = infervarid \/ getVirtualFixing(initial, i) = UNFIXED
  THEN Sparsify(cd, hdlr, bnds, vf, initial, [ce EXCEPT ![i] = FALSE], infervarid, i + 1)
  ELSE IF ce[i]
  THEN SparsifyTested(
         cd, hdlr, bnds,
         HypotheticalRun(cd, hdlr, bnds,
                         ReplayWithout(clearVirtualFixings(vf), initial, ce, infervarid, i, 1),
                         [on |-> FALSE, at |-> ce]),
         initial, ce, infervarid, i)
  ELSE Sparsify(cd, hdlr, bnds, vf, initial, ce, infervarid, i + 1)

\* the bounds at bdchgidx of the entries marked in ce, the inferred variable excluded
ConflictBounds(ce, n, infervarid, at) ==
  {[var |-> j, val |-> at[j]] :
     j \in {v \in Vars(n) : v # infervarid /\ ce[v] /\ at[v] # UNFIXED}}

\* the entries checked by the first hypothetical run r are sparsified
SparsifyChecked(cd, hdlr, bnds, r, initial, infervarid) ==
  Sparsify(cd, hdlr, bnds, r.vf, initial, r.checked.at, infervarid, 0)

\* the entries checked by the first hypothetical run r
CheckedEntries(r) == r.checked.at

\* variant that reports every bound read by the first hypothetical run, unsparsified
consRespropUnsparsified(cd, hdlr, bnds, infervarid, lower, inferinfo, at) ==
  IF inferinfo < 0
  THEN LET n == cd.nvars
           vf0 == BoundsAsFixings(allocVirtualFixings(n), at, n, 0)
           vf1 == setVirtualFixing(vf0, infervarid, IF lower THEN FIXED0 ELSE FIXED1)
       IN ConflictBounds(
            CheckedEntries(
              HypotheticalRun(cd, hdlr, bnds, vf1,
                              [on |-> TRUE, at |-> [v \in Vars(n) |-> FALSE]])),
            n, infervarid, at)
  ELSE resolveSymretopeConflictVariables(cd.permutation, infervarid, ~lower, inferinfo, at)

\* consRespropSymretope: the bounds it adds to the conflict; at are the bounds at
\* bdchgidx, lower: boundtype is SCIP_BOUNDTYPE_LOWER
consRespropSymretope(cd, hdlr, bnds, infervarid, lower, inferinfo, at) ==
  IF inferinfo < 0
  THEN LET n == cd.nvars
           vf0 == BoundsAsFixings(allocVirtualFixings(n), at, n, 0)
           vf1 == setVirtualFixing(vf0, infervarid, IF lower THEN FIXED0 ELSE FIXED1)
           initial == copyVirtualFixings(vf1, allocVirtualFixings(n))
       IN ConflictBounds(
            SparsifyChecked(
              cd, hdlr, bnds,
              HypotheticalRun(cd, hdlr, bnds, vf1,
                              [on |-> TRUE, at |-> [v \in Vars(n) |-> FALSE]]),
              initial, infervarid),
            n, infervarid, at)
  ELSE resolveSymretopeConflictVariables(cd.permutation, infervarid, ~lower, inferinfo, at)

\* ---------------------------------------------------------------- state
VARIABLES
  conss,          \* the constraint data of the constraints of the handler
  conshdlrdata,   \* the parameters of the handler
  bounds,         \* local bounds of the variables: UNFIXED, FIXED0 or FIXED1
  commits,        \* bound changes inferred by the handler, with their inferinfo
  nhostfixes,     \* bound changes made by the host so far
  call            \* the last callback: its inputs and what it returned

vars == << conss, conshdlrdata, bounds, commits, nhostfixes, call >>

\* compacted permutations: no entry is a fixed point
Derangements(n) ==
  {p \in [Vars(n) -> Vars(n)] :
     /\ \A i \in Vars(n) : p[i] # i
     /\ \A i, j \in Vars(n) : i # j => p[i] # p[j]}

NVars == conss[1].nvars

EmptyCall(op) ==
  [op |-> op, result |-> "none", runs |-> << >>, sol |-> << >>, idx |-> 0, conflictset |-> {}]

\* state after the handler is included with symretopepeek in peeks and maxorder in
\* maxorders, and ncons constraints with permutations from perms on n variables exist
InitWith(n, ncons, perms, peeks, maxorders, models) ==
  \E peek \in peeks, maxorder \in maxorders :
    \E perm \in [1..ncons -> perms], model \in [1..ncons -> models] :
      /\ conshdlrdata = [symretopepeek |-> peek, probingpeek |-> DEFAULT_PROBINGPEEK,
                         maxorder |-> maxorder,
                         maxordernvars |-> DEFAULT_SYMRETOPEMAXORDERNVARS]
      /\ conss = [c \in 1..ncons |-> consdataCreate(perm[c], n, model[c], conshdlrdata)]
      /\ bounds \in [Vars(n) -> {UNFIXED, FIXED0, FIXED1}]
      /\ commits = << >>
      /\ nhostfixes = 0
      /\ call = EmptyCall("create")

MaxOrders == {CappedMaxOrder, DEFAULT_SYMRETOPEMAXORDER}

Init ==
  \E n \in 2..MaxN :
    InitWith(n, 1, Derangements(n), {DEFAULT_SYMRETOPEPEEK}, MaxOrders, BOOLEAN)

\* contents that the uncleared buffer entryisimpactful of constraint c can have
UnclearedBuffer(cd, findcompleteset) ==
  IF findcompleteset /\ ~(cd.permutation.ismonotone /\ cd.permutation.isordered)
  THEN [Vars(cd.nvars) -> BOOLEAN]
  ELSE {[v \in Vars(cd.nvars) |-> FALSE]}

\* the same for a call of the callback: no buffer is read when no constraint is run
GarbageOf(cd, findcompleteset) ==
  IF \E c \in 1..Len(conss) : conss[c].execprop
  THEN UnclearedBuffer(cd, findcompleteset)
  ELSE {[v \in Vars(cd.nvars) |-> FALSE]}

\* the propagation callback, in or outside probing
ConsProp ==
  \E inProbing \in BOOLEAN :
    \E garb \in {f \in [1..Len(conss) -> [Vars(NVars) -> BOOLEAN]] :
                   \A c \in 1..Len(conss) :
                     f[c] \in GarbageOf(conss[c], FindCompleteSet(conshdlrdata, inProbing))} :
      \E st \in {consPropSymretope(conss, bounds, commits, conshdlrdata, inProbing, garb)} :
         /\ conss' = st.conss
         /\ bounds' = st.bounds
         /\ commits' = st.commits
         /\ call' = [EmptyCall("prop") EXCEPT !.result = st.result, !.runs = st.runs]
         /\ UNCHANGED << conshdlrdata, nhostfixes >>

\* the host fixes an unfixed variable; the variable event reaches every constraint
HostFix ==
  \E v \in Vars(NVars), b \in {FIXED0, FIXED1} :
    /\ nhostfixes < MaxHostFixes
    /\ bounds[v] = UNFIXED
    /\ bounds' = [bounds EXCEPT ![v] = b]
    /\ conss' = [c \in 1..Len(conss) |-> eventExec(conss[c], v)]
    /\ nhostfixes' = nhostfixes + 1
    /\ call' = [EmptyCall("fix") EXCEPT !.idx = v]
    /\ UNCHANGED << conshdlrdata, commits >>

\* the host asks for the reason of the inferred bound change number k
ConsResprop ==
  \E k \in 1..Len(commits) :
    LET cm == commits[k]
    IN /\ call' = [EmptyCall("resprop") EXCEPT
                     !.idx = k,
                     !.conflictset = consRespropSymretope(conss[cm.cons], conshdlrdata, bounds,
                                                          cm.var, cm.fixing = FIXED1,
                                                          cm.inferinfo, cm.before),
                     !.result = "SCIP_SUCCESS"]
       /\ UNCHANGED << conss, conshdlrdata, bounds, commits, nhostfixes >>

\* the host checks a 0/1 solution
ConsCheck ==
  \E x \in [Vars(NVars) -> 0..1] :
    /\ call' = [EmptyCall("check") EXCEPT !.sol = x, !.result = consCheckSymretope(conss, x)]
    /\ UNCHANGED << conss, conshdlrdata, bounds, commits, nhostfixes >>

Next == ConsProp \/ HostFix \/ ConsResprop \/ ConsCheck

\* all callbacks, on small constraints
Spec == Init /\ [][Next]_vars

\* the propagation callback on several constraints over the same variables
InitHandler ==
  \E n \in 2..MaxN, ncons \in 1..MaxConss :
    InitWith(n, ncons, Derangements(n), {DEFAULT_SYMRETOPEPEEK}, MaxOrders, {TRUE})

NextHandler == ConsProp \/ HostFix

SpecHandler == InitHandler /\ [][NextHandler]_vars

\* propagation from every entry state of one constraint, and its resolution
InitPropagate ==
  \E n \in 2..MaxNPropagate :
    InitWith(n, 1, Derangements(n), {DEFAULT_SYMRETOPEPEEK}, MaxOrders, {TRUE})

NextPropagate == ConsProp \/ ConsResprop

SpecPropagate == InitPropagate /\ [][NextPropagate]_vars

\* propagation of one constraint with a monotone and ordered permutation
MonotoneOrdered(n) ==
  {p \in Derangements(n) :
     LET P == SCIPgetPermutation(p, n) IN P.ismonotone /\ P.isordered}

InitMonotone ==
  \E n \in 2..MaxNMonotone :
    InitWith(n, 1, MonotoneOrdered(n), {DEFAULT_SYMRETOPEPEEK}, MaxOrders, {TRUE})

NextMonotone == ConsProp

SpecMonotone == InitMonotone /\ [][NextMonotone]_vars

\* propagation of one constraint with a monotone and ordered permutation of several
\* cycles, and the resolution of its bound changes
InitReplay ==
  \E n \in 2..MaxNReplay :
    InitWith(n, 1, MonotoneOrdered(n), {DEFAULT_SYMRETOPEPEEK}, MaxOrders, {TRUE})

NextReplay == ConsProp \/ ConsResprop

SpecReplay == InitReplay /\ [][NextReplay]_vars

\* the general path with peek: one constraint whose permutation is not monotone and
\* ordered, and calls of propVariables on the bounds of the problem
General(n) == Derangements(n) \ MonotoneOrdered(n)

InitImpactful ==
  \E n \in 2..MaxNImpactful :
    InitWith(n, 1, General(n), {TRUE}, MaxOrders, {TRUE})

\* propVariables for the constraint, outside probing, with peek: the call records the
\* content of entryisimpactful at its start and the history of the impactful list
PropVariablesPeek ==
  \E garb \in UnclearedBuffer(conss[1], TRUE) :
    \E r \in {propVariables(
                 Context(1, NVars, bounds, commits, NoVirtualFixings(NVars), TRUE,
                         [on |-> TRUE, at |-> [v \in Vars(NVars) |-> FALSE]]),
                 conss[1], conshdlrdata.symretopepeek, conshdlrdata.probingpeek, FALSE, garb)} :
      /\ bounds' = r.bounds
      /\ commits' = r.commits
      /\ call' = [EmptyCall("peek") EXCEPT
                    !.result = IF r.infeasible THEN "infeasible" ELSE "feasible",
                    !.runs = << [entry |-> bounds, garbage |-> garb, seen |-> r.imp.seen,
                                 put |-> r.imp.put, popped |-> r.imp.popped,
                                 left |-> r.imp.entries, infeasible |-> r.infeasible] >>]
      /\ UNCHANGED << conss, conshdlrdata, nhostfixes >>

NextImpactful == PropVariablesPeek

SpecImpactful == InitImpactful /\ [][NextImpactful]_vars

\* the solution check of one constraint
InitCheck ==
  \E n \in 2..MaxNCheck :
    /\ InitWith(n, 1, Derangements(n), {DEFAULT_SYMRETOPEPEEK}, MaxOrders, BOOLEAN)
    /\ \A v \in Vars(n) : bounds[v] = UNFIXED

NextCheck == ConsCheck

SpecCheck == InitCheck /\ [][NextCheck]_vars

\* the first call of completeFixingsPerPermutation that propVariables makes for
\* constraint c on the bounds bnds with the overlay vf: all tracked powers on the
\* general path, the powers of the first cycle on the monotone and ordered path
CompletionOn(c, bnds, vf) ==
  LET cd == conss[c]
      n == cd.nvars
      P == cd.permutation
      fast == P.ismonotone /\ P.isordered
      cx == Context(c, n, bnds, commits, vf, TRUE,
                    [on |-> TRUE, at |-> [v \in Vars(n) |-> FALSE]])
  IN completeFixingsPerPermutation(
       [cx EXCEPT !.g = allocSymretopeGraph(n, IF fast THEN P.maxcyclesize - 1 ELSE cd.nperms),
                  !.fq = allocFixingQueue(n)],
       P, cd.nperms, 1, IF fast THEN CycleSupport(P, 0) ELSE NoSupport)

\* the overlays of the hypothetical runs of peek: one entry that is free in bnds fixed
PeekOverlays(n, bnds) ==
  {setVirtualFixing(allocVirtualFixings(n), v, b) :
     v \in {u \in Vars(n) : bnds[u] = UNFIXED}, b \in {FIXED0, FIXED1}}

\* one call of completeFixingsPerPermutation on fresh arenas, on the problem or on an
\* overlay of peek; the arenas that it leaves are kept in call.runs.  Every entry
\* state is an initial state, so one call per behaviour is explored.
CompleteFixings ==
  /\ call.op = "create"
  /\ \E vf \in {NoVirtualFixings(NVars)} \cup PeekOverlays(NVars, bounds) :
       \E r \in {CompletionOn(1, bounds, vf)} :
         /\ call' = [EmptyCall("complete") EXCEPT
                       !.result = IF r.infeasible THEN "infeasible" ELSE "fixpoint",
                       !.runs = << [g |-> r.g, fq |-> r.fq, virtual |-> vf.on,
                                    ngen |-> r.ngen] >>]
         /\ bounds' = r.bounds
         /\ commits' = r.commits
         /\ UNCHANGED << conss, conshdlrdata, nhostfixes >>

\* completeFixingsPerPermutation from every entry state of one constraint
InitComplete ==
  \E n \in 2..MaxNComplete :
    InitWith(n, 1, Derangements(n), {DEFAULT_SYMRETOPEPEEK}, {DEFAULT_SYMRETOPEMAXORDER}, {TRUE})

NextComplete == CompleteFixings

SpecComplete == InitComplete /\ [][NextComplete]_vars

\* ---------------------------------------------------------------- the builder, step by step
\* One call of completeFixingsPerPermutation on the problem bounds, a state per step
\* of its loops.  call.runs holds one frame: the context cx, the position pc in the
\* function, the tree k and the pair (i, j) in work, the values var1fixes and
\* var2fixes read for the two leaves, the fixing enc that applyFixings popped last,
\* the tree ak and the node aj that it works on, and the step last taken.
BuilderCall(f) == [EmptyCall("build") EXCEPT !.result = f.pc, !.runs = << f >>]

\* the step that leaves the frame f: fixings that were set are bound changes of the host
BuilderMove(f) ==
  /\ call' = BuilderCall(f)
  /\ bounds' = f.cx.bounds
  /\ commits' = f.cx.commits
  /\ UNCHANGED << conss, conshdlrdata, nhostfixes >>

\* the arguments that propVariables passes in its first call
BuilderSupport(P) ==
  IF P.ismonotone /\ P.isordered THEN CycleSupport(P, 0) ELSE NoSupport

\* entry of the function up to the loop over the permutation queue
BuilderEnter ==
  /\ call.op = "create"
  /\ LET cd == conss[1]
         P == cd.permutation
         n == cd.nvars
         support == BuilderSupport(P)
         nperms == TreeCount(cd.nperms, 1, support)
         cx == Context(1, n, bounds, commits, NoVirtualFixings(n), TRUE,
                       [on |-> TRUE, at |-> [v \in Vars(n) |-> FALSE]])
         c0 == ResetOutputs(
                 [cx EXCEPT !.g = allocSymretopeGraph(n, IF support.on THEN P.maxcyclesize - 1
                                                         ELSE cd.nperms),
                            !.fq = allocFixingQueue(n)])
         f == [pc |-> "queue", cx |-> [c0 EXCEPT !.g = InitTrees(c0.g, nperms, 1, support)],
               nperms |-> nperms, support |-> support, entry |-> bounds,
               k |-> -1, i |-> -1, j |-> -1,
               var1fixes |-> << -1, -1 >>, var2fixes |-> << -1, -1 >>,
               enc |-> -1, ak |-> 0, aj |-> 0, last |-> "enter"]
     IN IF n < 2 \/ nperms <= 0
        THEN BuilderMove([f EXCEPT !.pc = "done", !.cx = c0])
        ELSE BuilderMove(f)

\* a tree is taken from the permutation queue
PopPermutation ==
  /\ call.op = "build" /\ call.result = "queue"
  /\ LET f == call.runs[1]
         q == f.cx.g.permsqueue
     IN /\ Len(q) > 0 /\ ~f.cx.ret
        /\ BuilderMove([f EXCEPT !.pc = "index", !.k = q[Len(q)], !.last = "pop",
                                 !.cx.g.permsqueue = SubSeq(q, 1, Len(q) - 1),
                                 !.cx.g.permsinqueue[q[Len(q)]] = FALSE])

\* the permutation queue is empty or a return is pending: label Cleanup
BuilderCleanup ==
  /\ call.op = "build" /\ call.result = "queue"
  /\ LET f == call.runs[1]
     IN /\ Len(f.cx.g.permsqueue) = 0 \/ f.cx.ret
        /\ BuilderMove([f EXCEPT !.pc = "done", !.last = "cleanup",
                                 !.cx = Cleanup(f.cx, NVars, f.nperms)])

\* the frame after the values of i and j were read for both leaves of tree k, from
\* the context c3 that the test of condition C3 left
ValuesRead(f, c3, i, j) ==
  LET n == NVars
      k == f.k
      live(l) == c3.g.leaves[k][l] # NULL
  IN [f EXCEPT !.pc = "leaf0", !.last = "read", !.i = i, !.j = j,
               !.var1fixes = << IF live(0) THEN BranchFixing(c3, n, k, i, 0) ELSE -1,
                                IF live(1) THEN BranchFixing(c3, n, k, i, 1) ELSE -1 >>,
               !.var2fixes = << IF live(0) THEN BranchFixing(c3, n, k, j, 0) ELSE -1,
                                IF live(1) THEN BranchFixing(c3, n, k, j, 1) ELSE -1 >>,
               !.cx = [getVarFixingEffect(getVarFixingEffect(c3, i, TRUE), j, TRUE)
                       EXCEPT !.eol = FALSE]]

\* head of the loop while(TRUE) of tree k: a stopping condition ends the work on the
\* tree, a fixed point of the power is skipped, else the values of the pair are read
IndexStep ==
  /\ call.op = "build" /\ call.result = "index"
  /\ LET f == call.runs[1]
         P == conss[1].permutation
         cx == f.cx
         g == cx.g
         k == f.k
         i_ == g.permindices[k]
         stop == [f EXCEPT !.pc = "queue", !.last = "stop"]
     IN IF cx.ret THEN BuilderMove(stop)
        ELSE IF g.leaves[k][0] = NULL /\ g.leaves[k][1] = NULL THEN BuilderMove(stop)
        ELSE IF (~f.support.on /\ i_ >= P.nvars) \/ (f.support.on /\ i_ >= f.support.n)
        THEN BuilderMove(stop)
        ELSE \E i \in {IF f.support.on THEN f.support.arr[i_] ELSE i_} :
               \E j \in {permGet(P, i, -g.permpows[k])} :
                 IF i = j
                 THEN BuilderMove([f EXCEPT !.last = "skip", !.cx.g.permindices[k] = @ + 1])
                 ELSE \E c3 \in {ConditionC3(MarkImpactful(MarkImpactful(cx, i), j),
                                             P, k, i, j, g.permpows[k])} :
                        IF c3.holds THEN BuilderMove([stop EXCEPT !.cx = c3.cx])
                        ELSE BuilderMove(ValuesRead(f, c3.cx, i, j))

\* the first leaf of tree k is extended
ExtendFirst ==
  /\ call.op = "build" /\ call.result = "leaf0"
  /\ LET f == call.runs[1]
     IN BuilderMove([f EXCEPT !.pc = "leaf1", !.last = "leaf0",
                              !.cx = ExtendLeaf(f.cx, NVars, f.k, 0, f.i, f.j, f.var1fixes[1],
                                                f.var2fixes[1], f.cx.g.permpows[f.k])])

\* the second leaf of tree k is extended
ExtendSecond ==
  /\ call.op = "build" /\ call.result = "leaf1"
  /\ LET f == call.runs[1]
     IN BuilderMove([f EXCEPT !.pc = "surface", !.last = "leaf1",
                              !.cx = ExtendSecondLeaf(f.cx, NVars, f.k, f.i, f.j, f.var1fixes[2],
                                                      f.var2fixes[2], f.cx.g.permpows[f.k])])

\* label Endofleaves: the index is increased, a necessary node below the root is queued
Surface ==
  /\ call.op = "build" /\ call.result = "surface"
  /\ LET f == call.runs[1]
     IN \E c \in {SurfaceRoot(f.cx, NVars, f.k)} :
          BuilderMove([f EXCEPT !.pc = IF c.ret THEN "index" ELSE "drain",
                                !.last = "surface", !.cx = c])

\* applyFixings: a fixing is popped from the queue and set; when setting it is
\* infeasible the function returns, else the loop over the trees starts
ApplyFixing ==
  /\ call.op = "build" /\ call.result = "drain"
  /\ LET f == call.runs[1]
         q == f.cx.fq.fixingqueue
     IN /\ Len(q) > 0 /\ ~f.cx.ret
        /\ \E c \in {PopFixing(f.cx, NVars)} :
             BuilderMove([f EXCEPT !.last = "pop fixing", !.enc = q[Len(q)],
                                   !.ak = 0, !.aj = 0,
                                   !.pc = IF c.infeasible THEN "drain" ELSE "apply",
                                   !.cx = IF c.infeasible THEN [c EXCEPT !.ret = TRUE] ELSE c])

\* applyFixings: the node 2*fixingvarid + aj of the tree ak is handled; after the
\* second node, or when a return is pending, the tree is put on the permutation queue
ApplyToNode ==
  /\ call.op = "build" /\ call.result = "apply"
  /\ LET f == call.runs[1]
     IN /\ f.ak < f.nperms /\ ~f.cx.ret
        /\ \E c \in {ApplyNode(f.cx, NVars, f.ak, f.aj, f.enc % NVars,
                                 IF f.enc >= NVars THEN FIXED1 ELSE FIXED0)} :
             IF f.aj = 1 \/ c.ret
             THEN BuilderMove([f EXCEPT !.last = "apply", !.ak = @ + 1, !.aj = 0,
                                        !.cx = RequeueTree(c, f.ak)])
             ELSE BuilderMove([f EXCEPT !.last = "apply", !.aj = 1, !.cx = c])

\* applyFixings: the loop over the trees ends, the next fixing is looked for
Applied ==
  /\ call.op = "build" /\ call.result = "apply"
  /\ LET f == call.runs[1]
     IN /\ f.ak >= f.nperms \/ f.cx.ret
        /\ BuilderMove([f EXCEPT !.pc = "drain", !.last = "applied"])

\* applyFixings returns: the fixing queue is empty, or infeasibility was found
Drained ==
  /\ call.op = "build" /\ call.result = "drain"
  /\ LET f == call.runs[1]
     IN /\ Len(f.cx.fq.fixingqueue) = 0 \/ f.cx.ret
        /\ BuilderMove([f EXCEPT !.pc = "index", !.last = "drained",
                                 !.cx = ReturnIfInfeasible([f.cx EXCEPT !.ret = FALSE])])

\* the steps compose to the function: the context that the last step leaves is the
\* one that completeFixingsPerPermutation yields on the entry bounds
BuilderAgreesWithCompletion ==
  (call.op = "build" /\ call.result = "done") =>
    [CompletionOn(1, call.runs[1].entry, NoVirtualFixings(NVars)) EXCEPT !.commits = << >>]
      = [call.runs[1].cx EXCEPT !.commits = << >>]

\* completeFixingsPerPermutation from every entry state of one constraint
InitBuilder ==
  \E n \in 2..MaxNBuilder :
    InitWith(n, 1, Derangements(n), {DEFAULT_SYMRETOPEPEEK}, MaxOrders, {TRUE})

NextBuilder ==
  \/ BuilderEnter
  \/ PopPermutation
  \/ BuilderCleanup
  \/ IndexStep
  \/ ExtendFirst
  \/ ExtendSecond
  \/ Surface
  \/ ApplyFixing
  \/ ApplyToNode
  \/ Applied
  \/ Drained

SpecBuilder == InitBuilder /\ [][NextBuilder]_vars

\* ---------------------------------------------------------------- permutation objects
\* the permutations of 0..n-1, fixed points included
AllPermutations(n) ==
  {p \in [Vars(n) -> Vars(n)] : \A i, j \in Vars(n) : i # j => p[i] # p[j]}

Pows ==
  ((0 - MaxPow)..MaxPow) \cup {INT_MAX - d : d \in 0..PowSlack}
                         \cup {d - INT_MAX : d \in 0..PowSlack}

\* no permutation object is built yet
InitPermutation ==
  /\ conshdlrdata = [symretopepeek |-> DEFAULT_SYMRETOPEPEEK,
                     probingpeek |-> DEFAULT_PROBINGPEEK,
                     maxorder |-> DEFAULT_SYMRETOPEMAXORDER,
                     maxordernvars |-> DEFAULT_SYMRETOPEMAXORDERNVARS]
  /\ conss = << >>
  /\ bounds = << >>
  /\ commits = << >>
  /\ nhostfixes = 0
  /\ call = EmptyCall("none")

\* SCIPgetPermutation on a permutation of 0..n-1
GetPermutation ==
  /\ conss = << >>
  /\ \E n \in 1..MaxNPermutation :
       \E perm \in AllPermutations(n) :
         conss' = << [permutation |-> SCIPgetPermutation(perm, n), nvars |-> n] >>
  /\ call' = EmptyCall("build")
  /\ UNCHANGED << conshdlrdata, bounds, commits, nhostfixes >>

\* permGet(index, pow) on the permutation object
PermGet ==
  /\ conss # << >>
  /\ \E index \in Vars(NVars), pow \in Pows :
       \E r \in permGetOutcomes(conss[1].permutation, index, pow) :
         call' = [EmptyCall("permGet") EXCEPT
                    !.idx = index, !.runs = << pow >>, !.sol = << r.entry >>,
                    !.result = IF r.fault THEN "fault" ELSE "returned"]
  /\ UNCHANGED << conss, conshdlrdata, bounds, commits, nhostfixes >>

\* getPermArray(pow) on the permutation object, into a fresh array
GetPermArray ==
  /\ conss # << >>
  /\ \E pow \in Pows :
       call' = [EmptyCall("getPermArray") EXCEPT
                  !.runs = << pow >>,
                  !.sol = getPermArray(conss[1].permutation, pow, [v \in Vars(NVars) |-> -1])]
  /\ UNCHANGED << conss, conshdlrdata, bounds, commits, nhostfixes >>

NextPermutation == GetPermutation \/ PermGet \/ GetPermArray

SpecPermutation == InitPermutation /\ [][NextPermutation]_vars

\* ---------------------------------------------------------------- constraint creation
\* settings of the parameters maxgrouporder and maxgroupordernvars; 0 switches a cap off
CapMaxOrders == {0, CappedMaxOrder, 2, DEFAULT_SYMRETOPEMAXORDER, INT_MAX}
CapMaxOrderNVars == {0, 1, 4, DEFAULT_SYMRETOPEMAXORDERNVARS, INT_MAX}

\* inputs of constraint creation: every array of up to MaxInputN entries from -1..n'
\* with every choice of binary variables
CreateInputs ==
  UNION {[nvars : {n}, perm : [Vars(n) -> (-1)..n], binary : [Vars(n) -> BOOLEAN]] :
           n \in 0..MaxInputN}

\* the handler is included, with its two caps set; no constraint exists
InitCreate ==
  /\ \E maxorder \in CapMaxOrders, maxordernvars \in CapMaxOrderNVars :
       conshdlrdata = [symretopepeek |-> DEFAULT_SYMRETOPEPEEK,
                       probingpeek |-> DEFAULT_PROBINGPEEK,
                       maxorder |-> maxorder,
                       maxordernvars |-> maxordernvars]
  /\ conss = << >>
  /\ bounds = << >>
  /\ commits = << >>
  /\ nhostfixes = 0
  /\ call = EmptyCall("none")

\* SCIPcreateConsSymretope on an input
CreateCons ==
  /\ conss = << >>
  /\ call.op = "none"
  /\ \E in \in CreateInputs, ismodelcons \in BOOLEAN :
       \E r \in SCIPcreateConsSymretope(in.perm, in.binary, in.nvars, ismodelcons, conshdlrdata) :
         /\ conss' = r.conss
         /\ call' = [EmptyCall("createcons") EXCEPT
                       !.result = r.retcode, !.idx = in.nvars,
                       !.sol = in.perm, !.runs = << in.binary >>]
  /\ UNCHANGED << conshdlrdata, bounds, commits, nhostfixes >>

NextCreate == CreateCons

SpecCreate == InitCreate /\ [][NextCreate]_vars

\* ---------------------------------------------------------------- the caps of consdataCreate
\* a cycle type is a sequence of records: count cycles of length len. Two types of
\* large permutations: order 232792560 on 102 indices, order 10010 on 214750 indices
LargeCycleTypes ==
  { << [len |-> 16, count |-> 1], [len |-> 9, count |-> 1], [len |-> 5, count |-> 2],
       [len |-> 7, count |-> 1], [len |-> 11, count |-> 1], [len |-> 13, count |-> 1],
       [len |-> 17, count |-> 1], [len |-> 19, count |-> 1] >>,
    << [len |-> 2, count |-> 107357], [len |-> 5, count |-> 1], [len |-> 7, count |-> 1],
       [len |-> 11, count |-> 1], [len |-> 13, count |-> 1] >> }

\* the types of one or two kinds of cycles of length up to MaxCycleLen
SmallCycleTypes ==
  LET kinds == [len : 2..MaxCycleLen, count : 1..MaxCycleCount]
  IN {<< k >> : k \in kinds} \cup {<< k, l >> : k \in kinds, l \in kinds}

\* number of indices, and the order as the first loop of SCIPgetPermutation
\* accumulates it, of a permutation without fixed points of the given cycle type
RECURSIVE TypeSupport(_, _)
TypeSupport(type, c) ==
  IF c = 0 THEN 0 ELSE TypeSupport(type, c - 1) + type[c].len * type[c].count

RECURSIVE TypeOrder(_, _)
TypeOrder(type, c) == IF c = 0 THEN 1 ELSE lcm(TypeOrder(type, c - 1), type[c].len)

\* the handler is included, with its two caps set; no constraint exists
InitCaps ==
  /\ \E maxorder \in CapMaxOrders, maxordernvars \in CapMaxOrderNVars :
       conshdlrdata = [symretopepeek |-> DEFAULT_SYMRETOPEPEEK,
                       probingpeek |-> DEFAULT_PROBINGPEEK,
                       maxorder |-> maxorder,
                       maxordernvars |-> maxordernvars]
  /\ conss = << >>
  /\ bounds = << >>
  /\ commits = << >>
  /\ nhostfixes = 0
  /\ call = EmptyCall("none")

\* the caps of consdataCreate on a permutation of some cycle type: of the permutation
\* object only the order and the number of indices are kept
CapPowers ==
  /\ conss = << >>
  /\ \E type \in SmallCycleTypes \cup LargeCycleTypes :
       \E t \in TrackedPowersOutcomes(TypeOrder(type, Len(type)), TypeSupport(type, Len(type)),
                                      conshdlrdata.maxorder, conshdlrdata.maxordernvars) :
         /\ conss' = IF t.fault THEN << >>
                     ELSE << [ permutation |-> [order |-> TypeOrder(type, Len(type)),
                                                nvars |-> TypeSupport(type, Len(type))],
                               nvars |-> TypeSupport(type, Len(type)),
                               nperms |-> t.nperms ] >>
         /\ call' = [EmptyCall("caps") EXCEPT
                       !.result = IF t.fault THEN "fault" ELSE "SCIP_OKAY"]
  /\ UNCHANGED << conshdlrdata, bounds, commits, nhostfixes >>

NextCaps == CapPowers

SpecCaps == InitCaps /\ [][NextCaps]_vars

\* ---------------------------------------------------------------- the constraint
\* gamma^k(i): k applications of the permutation to index i
RECURSIVE Iterate(_, _, _)
Iterate(perm, i, k) == IF k = 0 THEN i ELSE Iterate(perm, perm[i], k - 1)

\* the vector gamma^k(x): its entry i is the entry of x at gamma^-k(i)
PermutedVector(perm, n, x, k) ==
  [i \in Vars(n) |-> x[CHOOSE j \in Vars(n) : Iterate(perm, j, k) = i]]

\* x is lexicographically at least y
LexGE(x, y, n) ==
  \/ x = y
  \/ \E i \in Vars(n) : x[i] > y[i] /\ \A j \in 0..(i - 1) : x[j] = y[j]

\* x >= gamma^k(x)
Symretope(perm, n, x, k) == LexGE(x, PermutedVector(perm, n, x, k), n)

\* the 0/1 vector x lies within the bounds bnds
Respects(x, bnds) ==
  \A v \in DOMAIN bnds : (bnds[v] = FIXED0 => x[v] = 0) /\ (bnds[v] = FIXED1 => x[v] = 1)

\* the 0/1 vectors within bnds that satisfy x >= gamma^k(x) for every k in powers
FeasibleVectors(perm, n, bnds, powers) ==
  {x \in [Vars(n) -> 0..1] :
     Respects(x, bnds) /\ \A k \in powers : Symretope(perm, n, x, k)}

\* ---------------------------------------------------------------- claims
\* C1: a propagate call never cuts off a feasible point: for every 0/1 vector x
\* within the entry bounds with x >= gamma^k(x) for every tracked power k in 1..M,
\* the call does not report cutoff and every bound it tightened still admits x.
C1_PropagateKeepsFeasiblePoints ==
  call.op = "prop" =>
    \A r \in 1..Len(call.runs) :
      LET run == call.runs[r]
          cd == conss[run.cons]
      IN \A x \in FeasibleVectors(cd.permutation.perm, cd.nvars, run.entry, 1..cd.nperms) :
           ~run.infeasible /\ Respects(x, run.exit)

\* the order of the permutation: gamma^k for k in 1..Order are all its powers
Order(perm, n) ==
  CHOOSE k \in 1..(n * n * n) :
    /\ \A i \in Vars(n) : Iterate(perm, i, k) = i
    /\ \A m \in 1..(k - 1) : \E i \in Vars(n) : Iterate(perm, i, m) # i

\* C1 as amended: the same for every vector x with x >= gamma^k(x) for every power
\* k >= 1 of the permutation, tracked or not.
C1_PropagateKeepsLexMaxPoints ==
  call.op = "prop" =>
    \A r \in 1..Len(call.runs) :
      LET run == call.runs[r]
          cd == conss[run.cons]
          perm == cd.permutation.perm
      IN \A x \in FeasibleVectors(perm, cd.nvars, run.entry, 1..Order(perm, cd.nvars)) :
           ~run.infeasible /\ Respects(x, run.exit)

\* C1, its case: a propagation with peek tightened a bound while a vector that is
\* maximal in its orbit lies within the entry bounds
C1_Witness ==
  /\ call.op = "prop"
  /\ \E r \in 1..Len(call.runs) :
       LET run == call.runs[r]
           cd == conss[run.cons]
           perm == cd.permutation.perm
       IN /\ run.findcompleteset
          /\ run.ngen > 0
          /\ run.exit # run.entry
          /\ FeasibleVectors(perm, cd.nvars, run.entry, 1..Order(perm, cd.nvars)) # {}

\* the bounds bnds with variable v moved to the value opposite to fixing
Flipped(bnds, v, fixing) == [bnds EXCEPT ![v] = IF fixing = FIXED0 THEN FIXED1 ELSE FIXED0]

\* C2: every fixing x_v := b committed with inferinfo p >= 0 is implied by the single
\* comparison x >= gamma^p(x) under the local bounds at commit time: the scan from
\* x_v = 1-b reaches a (0,1) pair before a (1,0), (1,*), (*,0) or (*,*) pair, and so
\* no 0/1 vector within those bounds with x_v = 1-b satisfies the comparison.
C2_CommittedFixingPassesSingleComparison ==
  \A c \in 1..Len(commits) :
    LET cm == commits[c]
        cd == conss[cm.cons]
    IN cm.inferinfo >= 0 =>
         /\ setVarFixingTest(cd.permutation, cm.before, cm.var, cm.fixing, cm.inferinfo)
         /\ FeasibleVectors(cd.permutation.perm, cd.nvars,
                            Flipped(cm.before, cm.var, cm.fixing), {cm.inferinfo}) = {}

\* C2, its case: a fixing to 0 was committed with a power above 1 as inferinfo, and
\* a fixing to 1 of a variable other than the first with a power as inferinfo
C2_Witness ==
  /\ \E c \in 1..Len(commits) : commits[c].inferinfo >= 2 /\ commits[c].fixing = FIXED0
  /\ \E d \in 1..Len(commits) :
       commits[d].inferinfo >= 1 /\ commits[d].fixing = FIXED1 /\ commits[d].var > 0

\* C3: propagation is complete for a monotone and ordered permutation with peek: if
\* no 0/1 vector within the entry bounds satisfies x >= gamma^k(x) for all k >= 1 the
\* call reports cutoff, and otherwise every variable unfixed on return takes value 0
\* in one such vector and value 1 in another.
C3_MonotoneOrderedComplete ==
  call.op = "prop" =>
    \A r \in 1..Len(call.runs) :
      LET run == call.runs[r]
          cd == conss[run.cons]
          perm == cd.permutation.perm
          F == FeasibleVectors(perm, cd.nvars, run.entry, 1..Order(perm, cd.nvars))
      IN (run.findcompleteset /\ cd.permutation.ismonotone /\ cd.permutation.isordered) =>
           IF F = {} THEN run.infeasible
           ELSE \A v \in Vars(cd.nvars) :
                  run.exit[v] = UNFIXED =>
                    (\E x \in F : x[v] = 0) /\ (\E x \in F : x[v] = 1)

\* C3, its cases: a fast-path run with peek fixed a variable by peek and left another
\* one unfixed; and a fast-path run with peek reported cutoff
C3_Witness ==
  /\ call.op = "prop"
  /\ \E r \in 1..Len(call.runs) :
       LET run == call.runs[r]
           P == conss[run.cons].permutation
       IN /\ run.findcompleteset /\ P.ismonotone /\ P.isordered /\ P.ncycles > 1
          /\ ~run.infeasible
          /\ \E c \in run.first..run.last : commits[c].inferinfo = -1
          /\ \E v \in Vars(P.nvars) : run.exit[v] = UNFIXED

\* propagate run again on the bounds that the run left, with the same permutation and
\* options; garbage is what the uncleared buffer of the general path holds this time
Rerun(run, garbage) ==
  LET cd == conss[run.cons]
      n == cd.nvars
  IN propVariables(Context(run.cons, n, run.exit, << >>, NoVirtualFixings(n), TRUE,
                           [on |-> TRUE, at |-> [v \in Vars(n) |-> FALSE]]),
                   cd, conshdlrdata.symretopepeek, conshdlrdata.probingpeek, run.probing, garbage)

\* C4: propagate is idempotent: after a propagate call returned without cutoff,
\* running it again on the bounds it left (same permutation, same options, peek
\* included) tightens no further bound and does not report cutoff.
C4_PropagateIdempotent ==
  call.op = "prop" =>
    \A r \in 1..Len(call.runs) :
      LET run == call.runs[r]
      IN ~run.infeasible =>
           \A garbage \in UnclearedBuffer(conss[run.cons], run.findcompleteset) :
             LET again == Rerun(run, garbage)
             IN ~again.infeasible /\ again.ngen = 0 /\ again.bounds = run.exit

\* the general orchestrator over the powers 1..order-1 with peek on the entry bounds
\* of the run; garbage is what its uncleared buffer holds
GeneralRun(run, garbage) ==
  LET cd == conss[run.cons]
      n == cd.nvars
  IN propVariablesStandard(Context(run.cons, n, run.entry, << >>, NoVirtualFixings(n), TRUE,
                                   [on |-> TRUE, at |-> [v \in Vars(n) |-> FALSE]]),
                           [cd EXCEPT !.nperms = cd.permutation.order - 1], TRUE, garbage)

\* C5: for every monotone and ordered permutation and every partial fixing, the fast
\* path and the general orchestrator over the powers 1..order-1, both with peek, give
\* the same outcome: both report cutoff, or both end with the same fixed variables
\* and values.
C5_FastPathEqualsGeneral ==
  call.op = "prop" =>
    \A r \in 1..Len(call.runs) :
      LET run == call.runs[r]
          P == conss[run.cons].permutation
      IN (run.findcompleteset /\ P.ismonotone /\ P.isordered) =>
           \A garbage \in [Vars(P.nvars) -> BOOLEAN] :
             LET general == GeneralRun(run, garbage)
             IN IF run.infeasible THEN general.infeasible
                ELSE ~general.infeasible /\ general.bounds = run.exit

\* the bounds that hold exactly the members of the conflict set S, and variable v at
\* the value opposite to fixing
CertificateBounds(n, S, v, fixing) ==
  [u \in Vars(n) |->
     IF u = v THEN (IF fixing = FIXED0 THEN FIXED1 ELSE FIXED0)
     ELSE IF \E e \in S : e.var = u THEN (CHOOSE e \in S : e.var = u).val
     ELSE UNFIXED]

\* C6: for a fixing x_v := b committed with inferinfo p >= 0, the set S of bounds that
\* resolve-propagation reports is sufficient on its own: every 0/1 vector that has the
\* values of S and x_v = 1-b, all other variables arbitrary, violates x >= gamma^p(x).
C6_ResolvedSetSufficient ==
  (call.op = "resprop" /\ commits[call.idx].inferinfo >= 0) =>
    LET cm == commits[call.idx]
        cd == conss[cm.cons]
        S == call.conflictset
    IN /\ \A e \in S : e.var # cm.var /\ cm.before[e.var] = e.val
       /\ \A e, f \in S : e.var = f.var => e = f
       /\ FeasibleVectors(cd.permutation.perm, cd.nvars,
                          CertificateBounds(cd.nvars, S, cm.var, cm.fixing),
                          {cm.inferinfo}) = {}

\* C6, its case: the reason of a fixing with a power as inferinfo was asked for, and
\* the reported set has a member and leaves out a bound that held at that time
C6_Witness ==
  /\ call.op = "resprop"
  /\ commits[call.idx].inferinfo >= 1
  /\ call.conflictset # {}
  /\ \E u \in DOMAIN commits[call.idx].before :
       /\ commits[call.idx].before[u] # UNFIXED
       /\ \A e \in call.conflictset : e.var # u

\* the overlay that holds exactly the members of T and v at the value opposite to fixing
SeededOverlay(n, T, v, fixing) ==
  setVirtualFixing(
    BoundsAsFixings(allocVirtualFixings(n),
                    [u \in Vars(n) |->
                       IF \E e \in T : e.var = u THEN (CHOOSE e \in T : e.var = u).val
                       ELSE UNFIXED],
                    n, 0),
    v, IF fixing = FIXED0 THEN FIXED1 ELSE FIXED0)

\* whether the hypothetical run seeded with T and the flipped value of the variable of
\* commit cm reports infeasible
SeededRunInfeasible(cm, T) ==
  LET cd == conss[cm.cons]
      n == cd.nvars
  IN HypotheticalRun(cd, conshdlrdata, cm.before, SeededOverlay(n, T, cm.var, cm.fixing),
                     [on |-> FALSE, at |-> [v \in Vars(n) |-> FALSE]]).infeasible

\* C7: for a fixing committed by peek (inferinfo -1) the set S left after
\* sparsification is a one-minimal certificate: the hypothetical run seeded only with
\* the historical values of S and the flipped value of the inferred variable reports
\* infeasible, for each member s of S the run seeded with S without s does not, and
\* the inferred variable is never a member of S.
C7_PeekCertificateOneMinimal ==
  (call.op = "resprop" /\ commits[call.idx].inferinfo = -1) =>
    LET cm == commits[call.idx]
        S == call.conflictset
    IN /\ \A e \in S : e.var # cm.var /\ cm.before[e.var] = e.val
       /\ SeededRunInfeasible(cm, S)
       /\ \A s \in S : ~SeededRunInfeasible(cm, S \ {s})

\* C7, its case: the reason of a peek fixing was asked for; the set reported has two
\* members and leaves out a bound that held at that time
C7_Witness ==
  /\ call.op = "resprop"
  /\ commits[call.idx].inferinfo = -1
  /\ Cardinality(call.conflictset) >= 2
  /\ \E u \in DOMAIN commits[call.idx].before :
       /\ commits[call.idx].before[u] # UNFIXED
       /\ \A e \in call.conflictset : e.var # u

\* gamma^-k(i)
InverseIterate(perm, n, i, k) == CHOOSE j \in Vars(n) : Iterate(perm, j, k) = i

\* the first index i in ascending order with x_i # x_{gamma^-k(i)} exists and has
\* x_i = 0 and x_{gamma^-k(i)} = 1
FirstDifferingPairIsZeroOne(perm, n, x, k) ==
  \E i \in Vars(n) :
    /\ x[i] = 0 /\ x[InverseIterate(perm, n, i, k)] = 1
    /\ \A h \in 0..(i - 1) : x[h] = x[InverseIterate(perm, n, h, k)]

\* C8: check marks a 0/1 solution infeasible if and only if for some tracked power k
\* in 1..M the first index i with x_i # x_{gamma^-k(i)} has x_i = 0 and
\* x_{gamma^-k(i)} = 1; in every other case the solution is reported feasible.
C8_CheckVerdict ==
  call.op = "check" =>
    LET cd == conss[1]
        verdict == checkSymretopeSolution(cd, call.sol, "SCIP_FEASIBLE")
        zeroone == \E k \in 1..cd.nperms :
                     FirstDifferingPairIsZeroOne(cd.permutation.perm, cd.nvars, call.sol, k)
    IN /\ verdict = IF zeroone THEN "SCIP_INFEASIBLE" ELSE "SCIP_FEASIBLE"
       /\ cd.ismodelcons => call.result = verdict

\* C8, its cases: a solution was marked infeasible for a tracked power above 1 only;
\* and a solution that differs from its image was reported feasible
C8_Witness ==
  /\ call.op = "check"
  /\ conss[1].ismodelcons
  /\ conss[1].nperms >= 3
  /\ call.result = "SCIP_INFEASIBLE"
  /\ ~FirstDifferingPairIsZeroOne(conss[1].permutation.perm, conss[1].nvars, call.sol, 1)
  /\ ~FirstDifferingPairIsZeroOne(conss[1].permutation.perm, conss[1].nvars, call.sol, 2)

\* C9: every 0/1 solution that the check callback accepts for a symretope constraint
\* (a model constraint, the only kind the callback examines) satisfies
\* x >= gamma^k(x) for every k >= 1, that is for every power of gamma.
C9_AcceptedSolutionsLexMax ==
  (call.op = "check" /\ conss[1].ismodelcons /\ call.result = "SCIP_FEASIBLE") =>
    LET cd == conss[1]
        perm == cd.permutation.perm
    IN \A k \in 1..Order(perm, cd.nvars) : Symretope(perm, cd.nvars, call.sol, k)

\* C10: the propagation callback returns cutoff if and only if some constraint it
\* propagated was found infeasible; otherwise reduced-domain if and only if at least
\* one bound was actually tightened; otherwise did-not-find if and only if at least
\* one constraint had its propagation flag set and was run; otherwise did-not-run.
C10_PropagateResult ==
  call.op = "prop" =>
    LET cutoff == \E r \in 1..Len(call.runs) : call.runs[r].infeasible
        tightened == \E r \in 1..Len(call.runs) : call.runs[r].exit # call.runs[r].entry
        ran == Len(call.runs) > 0
    IN call.result = IF cutoff THEN "SCIP_CUTOFF"
                     ELSE IF tightened THEN "SCIP_REDUCEDDOM"
                     ELSE IF ran THEN "SCIP_DIDNOTFIND"
                     ELSE "SCIP_DIDNOTRUN"

\* C10, its case: a call ran two constraints, the first one tightened a bound and the
\* second one was found infeasible; the call returned cutoff
C10_Witness ==
  /\ call.op = "prop"
  /\ Len(call.runs) = 2
  /\ ~call.runs[1].infeasible /\ call.runs[1].exit # call.runs[1].entry
  /\ call.runs[2].infeasible
  /\ call.result = "SCIP_CUTOFF"

\* C11: after a propagate call has run a constraint without cutoff its flag execprop
\* is false and becomes true exactly at the first later event of a variable that the
\* run looked up (affectedentries): later fixings of the same callback and bound
\* changes of the host on such a variable set it, events of other variables never
\* do, and only a run of the constraint without cutoff clears it.
C11_FlagFollowsReadEvents ==
  [][ /\ call'.op = "prop" =>
           \A r \in 1..Len(call'.runs) :
             LET run == call'.runs[r]
                 cd == conss'[run.cons]
             IN ~run.infeasible =>
                  (cd.execprop <=>
                     \E p \in (run.last + 1)..Len(commits') :
                       cd.affectedentries[commits'[p].var])
      /\ call'.op = "fix" =>
           \A c \in 1..Len(conss) :
             /\ conss'[c].affectedentries = conss[c].affectedentries
             /\ conss'[c].execprop <=>
                  (conss[c].execprop \/ conss[c].affectedentries[call'.idx])
      /\ \A c \in 1..Len(conss) :
           (conss[c].execprop /\ ~conss'[c].execprop) =>
             /\ call'.op = "prop"
             /\ \E r \in 1..Len(call'.runs) :
                  call'.runs[r].cons = c /\ ~call'.runs[r].infeasible ]_vars

\* C11, its case: a constraint was run without cutoff and a later fixing of the same
\* callback, on a variable that the run looked up, set its flag again
C11_Witness ==
  /\ call.op = "prop"
  /\ \E r \in 1..Len(call.runs) :
       LET run == call.runs[r]
           cd == conss[run.cons]
       IN /\ ~run.infeasible
          /\ cd.execprop
          /\ \E p \in (run.last + 1)..Len(commits) : cd.affectedentries[commits[p].var]

\* propagate of constraint c run on the bounds bnds, in or outside probing; garbage is
\* what the uncleared buffer of the general path holds
RunOn(c, bnds, inProbing, garbage) ==
  LET cd == conss[c]
      n == cd.nvars
  IN propVariables(Context(c, n, bnds, << >>, NoVirtualFixings(n), TRUE,
                           [on |-> TRUE, at |-> [v \in Vars(n) |-> FALSE]]),
                   cd, conshdlrdata.symretopepeek, conshdlrdata.probingpeek, inProbing, garbage)

\* C12: skipping a constraint whose flag is clear loses nothing: when a propagate call
\* ran the constraint without cutoff and since then only variables that the run did
\* not look up changed (the flag is still clear), running propagate on the current
\* bounds tightens no bound and does not report cutoff.
C12_SkippingLosesNothing ==
  [][ call'.op \in {"prop", "fix"} =>
        LET runs == IF call'.op = "prop" THEN call'.runs ELSE call.runs
        IN \A r \in 1..Len(runs) :
             LET run == runs[r]
             IN (~run.infeasible /\ ~conss'[run.cons].execprop) =>
                  \A garbage \in UnclearedBuffer(conss[run.cons], run.findcompleteset) :
                    LET again == RunOn(run.cons, bounds', run.probing, garbage)
                    IN ~again.infeasible /\ again.ngen = 0 ]_vars

\* the fixing queue of r is empty with no flag set, and every node of every tree of
\* its arena, roots included, is zero
CleanArenas(r, n) ==
  /\ r.fq.fixingqueue = << >>
  /\ \A v \in Vars(n) : r.fq.fixinginqueue[v] = 0
  /\ \A k \in DOMAIN r.g.ty : \A x \in Nodes(n) :
       /\ r.g.pred[k][x] = NULL /\ r.g.s1[k][x] = NULL /\ r.g.s2[k][x] = NULL
       /\ r.g.ty[k][x] = 0 /\ r.g.fx[k][x] = 0

\* C13: on every return of completeFixingsPerPermutation (fixpoint, infeasibility in
\* the builder, contradiction at enqueue, infeasibility while a fixing is applied;
\* on the problem or on an overlay) the fixing queue is empty, every inqueue flag is 0
\* and every tree node of every tracked power, roots included, has no predecessor, no
\* successors, type 0 and fixing 0.
C13_CompletionLeavesArenasClean ==
  call.op = "complete" => CleanArenas(call.runs[1], NVars)

\* C13, its case: a call on the problem committed a fixing and then returned with
\* infeasibility
C13_Witness ==
  /\ call.op = "complete"
  /\ call.result = "infeasible"
  /\ ~call.runs[1].virtual
  /\ Len(commits) > 0

\* gamma^k(i) for any integer k: k mod order steps along gamma, or along its inverse
PowerOf(perm, n, i, k) ==
  IF k >= 0 THEN Iterate(perm, i, k % Order(perm, n))
  ELSE InverseIterate(perm, n, i, (0 - k) % Order(perm, n))

\* C14: on the object built from a permutation gamma, permGet(i, k) is gamma applied
\* k times to i for k >= 0 and the inverse of gamma applied |k| times for k < 0, and
\* getPermArray(k) writes the map that sends every i to that entry.
C14_AccessorsIterate ==
  LET perm == conss[1].permutation.perm
  IN /\ call.op = "permGet" =>
          /\ call.result = "returned"
          /\ call.sol[1] = PowerOf(perm, NVars, call.idx, call.runs[1])
     /\ call.op = "getPermArray" =>
          call.sol = [i \in Vars(NVars) |-> PowerOf(perm, NVars, i, call.runs[1])]

\* the cycle of index i
Orbit(perm, n, i) == {Iterate(perm, i, k) : k \in 0..n}

\* the smallest index of every cycle: the left-to-right scan discovers the cycles in
\* the order of these indices
CycleStarts(perm, n) == {i \in Vars(n) : \A j \in Orbit(perm, n, i) : i <= j}

CycleMaximum(perm, n, i) == CHOOSE m \in Orbit(perm, n, i) : \A j \in Orbit(perm, n, i) : j <= m

\* start t is discovered right after start s
NextStart(perm, n, s, t) ==
  /\ s \in CycleStarts(perm, n) /\ t \in CycleStarts(perm, n) /\ s < t
  /\ \A u \in CycleStarts(perm, n) : ~(s < u /\ u < t)

MaximaNonDecreasing(perm, n) ==
  \A s, t \in Vars(n) :
    NextStart(perm, n, s, t) => CycleMaximum(perm, n, s) <= CycleMaximum(perm, n, t)

\* C15: the ordered flag of a built permutation object is true exactly when the maxima
\* of the cycles, in the order in which the scan discovers the cycles, never decrease.
C15_OrderedIffMaximaNonDecreasing ==
  conss # << >> =>
    (conss[1].permutation.isordered <=> MaximaNonDecreasing(conss[1].permutation.perm, NVars))

\* C15 as amended: the ordered flag is true exactly when every index of each cycle is
\* at least the maximum of the cycle discovered right before it.
C15_OrderedIffCyclesFollowEachOther ==
  conss # << >> =>
    LET perm == conss[1].permutation.perm
    IN conss[1].permutation.isordered <=>
         \A s, t \in Vars(NVars) :
           NextStart(perm, NVars, s, t) =>
             \A j \in Orbit(perm, NVars, t) : j >= CycleMaximum(perm, NVars, s)

\* build has cleared the flag of a permutation whose cycle maxima never decrease
C15_Witness ==
  /\ call.op = "build"
  /\ ~conss[1].permutation.isordered
  /\ MaximaNonDecreasing(conss[1].permutation.perm, NVars)

\* the elements j of the cycle of i with gamma(j) < j
Descents(perm, n, i) == {j \in Orbit(perm, n, i) : perm[j] < j}

\* C16: the monotone flag of a built permutation object is true exactly when every
\* cycle, walked from its smallest index along gamma, has at most one element j with
\* gamma(j) < j.
C16_MonotoneIffOneDescentPerCycle ==
  conss # << >> =>
    LET perm == conss[1].permutation.perm
    IN conss[1].permutation.ismonotone <=>
         \A s \in CycleStarts(perm, NVars) : Cardinality(Descents(perm, NVars, s)) <= 1

\* build has cleared the flag for a cycle with two descents that is followed by a
\* cycle with at most one
C16_Witness ==
  /\ call.op = "build"
  /\ ~conss[1].permutation.ismonotone
  /\ LET perm == conss[1].permutation.perm
     IN \E s, t \in CycleStarts(perm, NVars) :
          /\ s < t
          /\ Cardinality(Descents(perm, NVars, s)) > 1
          /\ Cardinality(Descents(perm, NVars, t)) <= 1

\* the lengths of the cycles
CycleLengths(perm, n) == {Cardinality(Orbit(perm, n, i)) : i \in Vars(n)}

\* C17: the order of a built permutation object is the least common multiple of the
\* lengths of the cycles: the least positive number that every length divides.
C17_OrderIsLcmOfCycleLengths ==
  conss # << >> =>
    LET lens == CycleLengths(conss[1].permutation.perm, NVars)
        order == conss[1].permutation.order
    IN /\ order >= 1
       /\ \A l \in lens : order % l = 0
       /\ \A m \in 1..(order - 1) : \E l \in lens : m % l # 0

\* build has combined cycles whose lengths share a factor, and cycles whose lengths
\* do not
C17_Witness ==
  /\ call.op = "build"
  /\ LET perm == conss[1].permutation.perm
     IN \/ /\ CycleLengths(perm, NVars) = {2}
           /\ Cardinality(CycleStarts(perm, NVars)) = 2
           /\ conss[1].permutation.order = 2
        \/ /\ CycleLengths(perm, NVars) = {2, 3}
           /\ conss[1].permutation.order = 6

\* C18: after constraint construction the number M of tracked powers is at least 1 and
\* at most order - 1, at most maxorder when maxorder > 0, and when maxordernvars > 0
\* either M * n <= maxordernvars or M = 1.
C18_TrackedPowersWithinCaps ==
  (call.op = "caps" /\ call.result = "SCIP_OKAY") =>
    LET M == conss[1].nperms
        n == conss[1].nvars
    IN /\ 1 <= M /\ M <= conss[1].permutation.order - 1
       /\ conshdlrdata.maxorder > 0 => M <= conshdlrdata.maxorder
       /\ conshdlrdata.maxordernvars > 0 =>
            (M = 1 \/ M <= conshdlrdata.maxordernvars \div n)

\* the index map handed to creation is a permutation of 0..n'-1
WellFormed(inputperm, inputnvars) ==
  /\ \A i \in Vars(inputnvars) : inputperm[i] \in Vars(inputnvars)
  /\ \A i, j \in Vars(inputnvars) : i # j => inputperm[i] # inputperm[j]

\* C19: constraint creation reports an error and creates no constraint when the index
\* map has an entry outside 0..n'-1 or a value that occurs twice.
C19_MalformedMapIsReported ==
  (call.op = "createcons" /\ ~WellFormed(call.sol, call.idx)) =>
    (call.result \notin {"SCIP_OKAY", "fault"} /\ conss = << >>)

\* the indices that creation is to keep: binary variable, not a fixed point
Affected(inputperm, binary, inputnvars) ==
  {i \in Vars(inputnvars) : binary[i] /\ inputperm[i] # i}

\* position of index i among the kept indices in increasing order
NewPosition(inputperm, binary, inputnvars, i) ==
  Cardinality({h \in Affected(inputperm, binary, inputnvars) : h < i})

\* C20: for n' variables and a permutation perm of 0..n'-1, creation keeps exactly the
\* indices i with a binary variable and perm[i] # i, in increasing order, and the
\* stored map sends the new position of i to the new position of perm[i]: it is a
\* permutation of 0..n-1 without fixed points.
C20_CompactionKeepsAffectedIndices ==
  (call.op = "createcons" /\ WellFormed(call.sol, call.idx)) =>
    LET inputperm == call.sol
        binary == call.runs[1]
        kept == Affected(inputperm, binary, call.idx)
        n == Cardinality(kept)
    IN /\ call.result = "SCIP_OKAY"
       /\ conss[1].nvars = n
       /\ Len(conss[1].vars) = n
       /\ \A i \in kept : conss[1].vars[NewPosition(inputperm, binary, call.idx, i) + 1] = i
       /\ n > 0 =>
            LET perm == conss[1].permutation.perm
            IN /\ \A i \in kept :
                    /\ inputperm[i] \in kept
                    /\ perm[NewPosition(inputperm, binary, call.idx, i)]
                         = NewPosition(inputperm, binary, call.idx, inputperm[i])
               /\ perm \in Derangements(n)

\* the cyclic shift [1, 2, ..., n-1, 0] of n variables
SingleCycle(n) == [i \in Vars(n) |-> (i + 1) % n]

\* v is the only variable that the bounds bnds fix, and it is fixed to b
OnlyFixed(bnds, n, v, b) ==
  /\ bnds[v] = b
  /\ \A u \in Vars(n) \ {v} : bnds[u] = UNFIXED

\* C21: for the single n-cycle [1, 2, ..., n-1, 0] with n >= 2, propagation from the
\* state where only x_0 is fixed, to 0, fixes every other variable to 0, propagation
\* from the state where only x_{n-1} is fixed, to 1, fixes every other variable to 1,
\* and neither reports a cutoff.
C21_SingleCyclePropagatesEndFixings ==
  (call.op = "prop" /\ Len(call.runs) = 1 /\ conss[1].permutation.perm = SingleCycle(NVars)) =>
    LET run == call.runs[1]
    IN /\ OnlyFixed(run.entry, NVars, 0, FIXED0) =>
            (~run.infeasible /\ call.result # "SCIP_CUTOFF"
             /\ \A v \in Vars(NVars) : bounds[v] = FIXED0)
       /\ OnlyFixed(run.entry, NVars, NVars - 1, FIXED1) =>
            (~run.infeasible /\ call.result # "SCIP_CUTOFF"
             /\ \A v \in Vars(NVars) : bounds[v] = FIXED1)

C21_Witness ==
  /\ call.op = "prop" /\ Len(call.runs) = 1 /\ NVars = MaxNMonotone
  /\ conss[1].permutation.perm = SingleCycle(NVars)
  /\ OnlyFixed(call.runs[1].entry, NVars, NVars - 1, FIXED1)
  /\ \A v \in Vars(NVars) : bounds[v] = FIXED1
  /\ call.result = "SCIP_REDUCEDDOM"

\* the run of the scenario: one constraint on the 4-cycle [1,2,3,0], only x_2 fixed, to
\* 1, at entry, peek enabled
PeekScenario(run) ==
  /\ NVars = 4
  /\ conss[1].permutation.perm = SingleCycle(4)
  /\ OnlyFixed(run.entry, 4, 2, FIXED1)
  /\ run.findcompleteset

\* C22 as stated: with n = 4, perm = [1,2,3,0], only x_2 fixed (to 1) and peek
\* enabled, propagation fixes x_0 := 1 and x_1 := 1, and peek then fixes x_3 := 1 or
\* reports infeasibility.
C22_PeekFixesLastEntry ==
  (call.op = "prop" /\ Len(call.runs) = 1 /\ PeekScenario(call.runs[1])) =>
    \/ call.runs[1].infeasible
    \/ bounds[0] = FIXED1 /\ bounds[1] = FIXED1 /\ bounds[3] = FIXED1

\* C22, amended: with n = 4, perm = [1,2,3,0], only x_2 fixed (to 1) and peek enabled,
\* propagation fixes x_0 := 1 and nothing else and reports no infeasibility; x_1 and
\* x_3 stay unfixed, and each of them takes both values in vectors of the symretope.
C22_PeekFixesFirstEntryOnly ==
  (call.op = "prop" /\ Len(call.runs) = 1 /\ PeekScenario(call.runs[1])) =>
    /\ ~call.runs[1].infeasible
    /\ call.result = "SCIP_REDUCEDDOM"
    /\ bounds = [v \in Vars(4) |-> IF v \in {0, 2} THEN FIXED1 ELSE UNFIXED]
    /\ \A v \in {1, 3}, b \in 0..1 :
         \E x \in FeasibleVectors(SingleCycle(4), 4, bounds, 1..3) : x[v] = b

C22_Witness ==
  /\ call.op = "prop" /\ Len(call.runs) = 1 /\ PeekScenario(call.runs[1])
  /\ bounds[0] = FIXED1 /\ bounds[1] = UNFIXED /\ bounds[3] = UNFIXED
  /\ Len(commits) = 1

\* under the bounds bnds every unfixed variable takes both values in vectors that lie
\* within bnds and satisfy x >= gamma^p(x)
CompleteForPower(perm, n, bnds, p) ==
  \A v \in Vars(n) :
    bnds[v] = UNFIXED =>
      \A b \in 0..1 : \E x \in FeasibleVectors(perm, n, bnds, {p}) : x[v] = b

\* the run of completeFixingsPerPermutation was made on the problem bounds, over the
\* full index range (no support) and the powers 1..nperms
FullRangeRun ==
  /\ call.op = "complete"
  /\ ~call.runs[1].virtual
  /\ ~(conss[1].permutation.ismonotone /\ conss[1].permutation.isordered)

\* C23: without peek the tree builder is complete per tracked power: when
\* completeFixingsPerPermutation over the powers 1..M on the full index range returns
\* without infeasibility, then for every tracked power p and every variable v that is
\* still unfixed, both v = 0 and v = 1 extend to a 0/1 vector that respects the
\* resulting fixings and satisfies x >= gamma^p(x).
C23_BuilderCompletePerPower ==
  (FullRangeRun /\ call.result = "fixpoint") =>
    \A p \in 1..conss[1].nperms :
      CompleteForPower(conss[1].permutation.perm, NVars, bounds, p)

\* the node keyed on variable v that the builder reads for the leaf l of tree k: the
\* node of the branch of the leaf when it is linked, else the node of the other branch
NodeRead(g, k, v, l) ==
  IF g.pred[k][2 * v + l] # NULL THEN 2 * v + l
  ELSE IF g.pred[k][2 * v + (1 - l)] # NULL THEN 2 * v + (1 - l)
  ELSE NULL

\* the value read for variable v was decoded from the fixing of the node: 1 exactly for
\* the fixing v + n, 0 exactly for the fixing v
DecodedFrom(value, fixing, v, n) ==
  /\ value = FIXED1 <=> fixing = v + n
  /\ value = FIXED0 <=> fixing = v

\* the frame f holds values that the builder read from tree nodes for the leaf l
ReadFromNode(f, v, l) ==
  /\ f.cx.g.leaves[f.k][l] # NULL
  /\ getVarFixingValue(f.cx, v) = UNFIXED
  /\ NodeRead(f.cx.g, f.k, v, l) # NULL

\* C24: the path-local value that the builder reads from a tree node keyed on variable
\* v is 1 exactly when the encoded fixing of the node is v + n and 0 exactly when it is
\* v, for every variable v, v = 0 included.
C24_NodeValueDecoded ==
  (call.op = "build" /\ call.runs[1].last = "read") =>
    LET f == call.runs[1]
        g == f.cx.g
    IN \A l \in 0..1 :
         /\ ReadFromNode(f, f.i, l) =>
              DecodedFrom(f.var1fixes[l + 1], g.fx[f.k][NodeRead(g, f.k, f.i, l)], f.i, NVars)
         /\ ReadFromNode(f, f.j, l) =>
              DecodedFrom(f.var2fixes[l + 1], g.fx[f.k][NodeRead(g, f.k, f.j, l)], f.j, NVars)

\* the nodes on the path from the root of tree k to the node x, the root excluded
RECURSIVE PathNodes(_, _, _)
PathNodes(g, k, x) ==
  IF x = ROOT \/ x = NULL THEN {} ELSE {x} \cup PathNodes(g, k, g.pred[k][x])

\* the value of variable v on the path to the node leaf of tree k: its fixing in the
\* context, else the value of the fixing of the node keyed on v on the path, else unfixed
PathValue(cx, n, k, leaf, v) ==
  LET on == {x \in PathNodes(cx.g, k, leaf) : x \div 2 = v}
  IN IF getVarFixingValue(cx, v) # UNFIXED THEN getVarFixingValue(cx, v)
     ELSE IF on = {} THEN UNFIXED
     ELSE IF \E x \in on : cx.g.fx[k][x] >= n THEN FIXED1 ELSE FIXED0

\* the graph h is the graph g with one more node in tree k: a node of the given type
\* keyed on v with value b, appended to the leaf l, which it replaces as the leaf
Appended(g, h, n, k, l, type, v, b) ==
  \E x \in {2 * v, 2 * v + 1} :
    /\ g.pred[k][x] = NULL
    /\ h = [g EXCEPT !.pred[k][x] = g.leaves[k][l], !.ty[k][x] = type,
                     !.fx[k][x] = v + n * b, !.s1[k][g.leaves[k][l]] = x,
                     !.leaves[k][l] = x]

\* the table of the builder for the leaf l of tree k at the pair (i, j), on the values
\* (a, b) of (x_i, x_j): the graph h that the update of the graph g must leave.  The
\* pairs (0,1) and (*,*) are not part of the statement.
TableUpdate(g, h, n, k, l, i, j, a, b) ==
  /\ (a = FIXED0 /\ b = FIXED0) \/ (a = FIXED1 /\ b = FIXED1) => h = g
  /\ (a = FIXED1 /\ b = FIXED0) => h = [g EXCEPT !.leaves[k][l] = NULL]
  /\ (a = FIXED0 /\ b = UNFIXED) => Appended(g, h, n, k, l, SYMRETOPE_NECC, j, 0)
  /\ (a = UNFIXED /\ b = FIXED1) => Appended(g, h, n, k, l, SYMRETOPE_NECC, i, 1)
  /\ (a = FIXED1 /\ b = UNFIXED) => Appended(g, h, n, k, l, SYMRETOPE_COND, j, 1)
  /\ (a = UNFIXED /\ b = FIXED0) => Appended(g, h, n, k, l, SYMRETOPE_COND, i, 0)

\* the step from frame f to frame e updates the leaf l, live when the values were read,
\* as the table says on the path-local values of (x_i, x_j)
LeafUpdatedByTable(f, e, l) ==
  (f.var1fixes[l + 1] # -1 /\ ~f.cx.ret /\ ~f.cx.eol) =>
    TableUpdate(f.cx.g, e.cx.g, NVars, f.k, l, f.i, f.j,
                PathValue(f.cx, NVars, f.k, f.cx.g.leaves[f.k][l], f.i),
                PathValue(f.cx, NVars, f.k, f.cx.g.leaves[f.k][l], f.j))

\* C25: at a builder step for the pair (i, j) with i # j, each live leaf is updated
\* from its path-local values of (x_i, x_j) as the table says: (0,0) and (1,1) change
\* nothing, (1,0) empties the leaf slot without adding or deleting a node, (0,*)
\* appends a necessary node x_j := 0, (*,1) a necessary node x_i := 1, (1,*) a
\* conditional node x_j := 1, (*,0) a conditional node x_i := 0; the appended node
\* becomes the leaf, and the cursor of the tree then advances by exactly one.
C25_LeavesFollowTable ==
  [][ /\ (call.op = "build" /\ call.result = "leaf0") =>
           /\ LeafUpdatedByTable(call.runs[1], call'.runs[1], 0)
           /\ call'.runs[1].cx.g.permindices = call.runs[1].cx.g.permindices
      /\ (call.op = "build" /\ call.result = "leaf1") =>
           /\ LeafUpdatedByTable(call.runs[1], call'.runs[1], 1)
           /\ call'.runs[1].cx.g.permindices = call.runs[1].cx.g.permindices
      /\ (call.op = "build" /\ call.result = "surface" /\ ~call.runs[1].cx.ret) =>
           call'.runs[1].cx.g.permindices
             = [call.runs[1].cx.g.permindices EXCEPT ![call.runs[1].k] = @ + 1]
    ]_vars

\* the linked nodes of tree k below the node a
Below(g, k, a) ==
  {x \in DOMAIN g.pred[k] : x # ROOT /\ g.pred[k][x] # NULL /\ a \in PathNodes(g, k, g.pred[k][x])}

\* the other successor of the predecessor of the node a, or NULL
Sibling(g, k, a) ==
  LET p == g.pred[k][a]
  IN IF g.s1[k][p] = a THEN g.s2[k][p] ELSE g.s1[k][p]

\* the only successor of the node b
OnlyChild(g, k, b) == IF g.s1[k][b] # NULL THEN g.s1[k][b] ELSE g.s2[k][b]

\* the nearest ancestor a of the start of the collapse that is no necessary node has no
\* sibling: in the graph h it is a necessary node with the opposite value on the same
\* variable, and everything that was below it is removed
CollapsedToNecessary(g, h, n, k, a) ==
  /\ h.ty[k][a] = SYMRETOPE_NECC
  /\ h.fx[k][a] = Converse(g.fx[k][a], n)
  /\ h.fx[k][a] % n = g.fx[k][a] % n
  /\ h.pred[k][a] = g.pred[k][a]
  /\ h.s1[k][a] = NULL /\ h.s2[k][a] = NULL
  /\ \A y \in Below(g, k, a) : h.pred[k][y] = NULL

\* the ancestor a has the sibling b: in the graph h the branch of a is removed and the
\* necessary child c of b is moved above b: parent -> c -> b -> former successors of c
CollapsedToSibling(g, h, k, a, b) ==
  LET p == g.pred[k][a]
      c == OnlyChild(g, k, b)
  IN /\ g.ty[k][c] = SYMRETOPE_NECC
     /\ h.pred[k][a] = NULL
     /\ \A y \in Below(g, k, a) : h.pred[k][y] = NULL
     /\ h.s1[k][p] = c /\ h.s2[k][p] = NULL
     /\ h.pred[k][c] = p /\ h.s1[k][c] = b /\ h.s2[k][c] = NULL
     /\ h.pred[k][b] = c
     /\ h.s1[k][b] = g.s1[k][c] /\ h.s2[k][b] = g.s2[k][c]
     /\ \A y \in {g.s1[k][c], g.s2[k][c]} \ {NULL} : h.pred[k][y] = b

\* the collapse of tree k that starts at the node x of the context c left the context d
Collapsed(c, d, n, k, x) ==
  LET g == c.g
      h == d.g
      a == FirstNonNecc(g, k, x)
  IN /\ \A y \in PathNodes(g, k, x) \ PathNodes(g, k, a) : h.pred[k][y] = NULL \/ d.infeasible
     /\ IF a = ROOT THEN d.infeasible
        ELSE IF Sibling(g, k, a) = NULL THEN CollapsedToNecessary(g, h, n, k, a)
        ELSE CollapsedToSibling(g, h, k, a, Sibling(g, k, a))

\* the leaf l of tree k, live when the values were read, holds the pair (0, 1)
ZeroOneAtLeaf(f, l) ==
  /\ f.var1fixes[l + 1] # -1 /\ ~f.cx.ret /\ ~f.cx.eol
  /\ PathValue(f.cx, NVars, f.k, f.cx.g.leaves[f.k][l], f.i) = FIXED0
  /\ PathValue(f.cx, NVars, f.k, f.cx.g.leaves[f.k][l], f.j) = FIXED1

\* the node that applyFixings handles next is a linked necessary node whose fixing is
\* the converse of the applied fixing
ContradictedNode(f) ==
  LET x == 2 * (f.enc % NVars) + f.aj
  IN /\ f.ak < f.nperms /\ ~f.cx.ret
     /\ f.cx.g.pred[f.ak][x] # NULL
     /\ f.cx.g.ty[f.ak][x] = SYMRETOPE_NECC
     /\ f.cx.g.fx[f.ak][x] = Converse(f.enc, NVars)

\* C26: on a (0,1) pair at a leaf, or on an applied fixing that contradicts a necessary
\* node, the collapse deletes the necessary nodes from that point up to the nearest
\* conditional ancestor A or the root; reaching the root makes the call report
\* infeasible; if A has no sibling, A becomes a necessary node with the opposite value
\* on the same variable and everything below it is removed; if A has a sibling B, the
\* branch of A is removed and the necessary child C of B is moved above B, so that the
\* path reads parent -> C -> B -> former successors of C.
C26_CollapseRestructures ==
  [][ /\ (call.op = "build" /\ call.result = "leaf0" /\ ZeroOneAtLeaf(call.runs[1], 0)) =>
           Collapsed(call.runs[1].cx, call'.runs[1].cx, NVars, call.runs[1].k,
                     call.runs[1].cx.g.leaves[call.runs[1].k][0])
      /\ (call.op = "build" /\ call.result = "leaf1" /\ ZeroOneAtLeaf(call.runs[1], 1)) =>
           Collapsed(call.runs[1].cx, call'.runs[1].cx, NVars, call.runs[1].k,
                     call.runs[1].cx.g.leaves[call.runs[1].k][1])
      /\ (call.op = "build" /\ call.result = "apply" /\ ContradictedNode(call.runs[1])) =>
           /\ call'.runs[1].cx.g.pred[call.runs[1].ak]
                                     [2 * (call.runs[1].enc % NVars) + call.runs[1].aj] = NULL
           /\ Collapsed(call.runs[1].cx, call'.runs[1].cx, NVars, call.runs[1].ak,
                        call.runs[1].cx.g.pred[call.runs[1].ak]
                          [2 * (call.runs[1].enc % NVars) + call.runs[1].aj])
    ]_vars

\* the nodes of tree k that are linked into the tree
Linked(g, k) == {x \in DOMAIN g.pred[k] : x # ROOT /\ g.pred[k][x] # NULL}

\* the tree k is on the permutation queue exactly once
QueuedOnce(g, k) ==
  /\ Cardinality({p \in 1..Len(g.permsqueue) : g.permsqueue[p] = k}) = 1
  /\ g.permsinqueue[k]

\* C27: after applyFixings has applied a fixing of variable v without reporting
\* infeasibility, no tree of any tracked power contains a node keyed on v, and every
\* tracked power is in the permutation queue exactly once.
C27_AppliedVariableLeavesTrees ==
  (call.op = "build" /\ call.runs[1].last = "applied" /\ ~call.runs[1].cx.infeasible) =>
    LET f == call.runs[1]
        v == f.enc % NVars
    IN \A k \in 0..(f.nperms - 1) :
         /\ f.cx.g.pred[k][2 * v] = NULL
         /\ f.cx.g.pred[k][2 * v + 1] = NULL
         /\ \A x \in Linked(f.cx.g, k) : f.cx.g.fx[k][x] % NVars # v
         /\ QueuedOnce(f.cx.g, k)

\* a fixing that the call generated was applied to three trees
C27_Witness ==
  /\ call.op = "build" /\ call.runs[1].last = "applied" /\ ~call.runs[1].cx.infeasible
  /\ call.runs[1].nperms >= 3
  /\ \A k \in 0..(call.runs[1].nperms - 1) : QueuedOnce(call.runs[1].cx.g, k)
  /\ call.runs[1].cx.bounds[call.runs[1].enc % NVars] # call.runs[1].entry[call.runs[1].enc % NVars]

\* a successor of the root of tree k is a necessary node
NecessaryBelowRoot(g, k) ==
  \E x \in {g.s1[k][ROOT], g.s2[k][ROOT]} \ {NULL} : g.ty[k][x] = SYMRETOPE_NECC

\* C28: every necessary node that becomes a child of a root is enqueued and applied
\* before the next builder step: at the start of every builder step, and after every
\* drain of the fixing queue that did not report infeasibility, no root of a tree has a
\* necessary node as a child.
C28_NoNecessaryChildOfRoot ==
  (/\ call.op = "build"
   /\ call.result = "index"
   /\ ~call.runs[1].cx.ret /\ ~call.runs[1].cx.infeasible) =>
    \A k \in 0..(call.runs[1].nperms - 1) : ~NecessaryBelowRoot(call.runs[1].cx.g, k)

\* a drain has applied a necessary node that the step had put below the root of a tree
C28_Witness ==
  /\ call.op = "build" /\ call.result = "index" /\ call.runs[1].last = "drained"
  /\ ~call.runs[1].cx.infeasible
  /\ call.runs[1].enc # -1
  /\ call.runs[1].cx.ngen >= 2
  /\ \A k \in 0..(call.runs[1].nperms - 1) : ~NecessaryBelowRoot(call.runs[1].cx.g, k)

\* the variables of the nodes of tree k from the node x on, along first successors
RECURSIVE ChainVars(_, _, _, _)
ChainVars(g, n, k, x) ==
  IF x = NULL THEN << >> ELSE << g.fx[k][x] % n >> \o ChainVars(g, n, k, g.s1[k][x])

\* the root of tree k and its linked nodes
TreeNodes(g, k) == {ROOT} \cup Linked(g, k)

\* the node x of tree k has the two successors a and b: both are conditional nodes, on
\* distinct variables, each with exactly one successor, a necessary node that carries
\* the converse of the fixing of the other conditional node
BranchingShape(g, n, k, a, b) ==
  /\ g.ty[k][a] = SYMRETOPE_COND /\ g.ty[k][b] = SYMRETOPE_COND
  /\ g.fx[k][a] % n # g.fx[k][b] % n
  /\ g.s1[k][a] # NULL /\ g.s2[k][a] = NULL
  /\ g.s1[k][b] # NULL /\ g.s2[k][b] = NULL
  /\ g.ty[k][g.s1[k][a]] = SYMRETOPE_NECC /\ g.ty[k][g.s1[k][b]] = SYMRETOPE_NECC
  /\ g.fx[k][g.s1[k][a]] = Converse(g.fx[k][b], n)
  /\ g.fx[k][g.s1[k][b]] = Converse(g.fx[k][a], n)

\* the two branches below the node x hold, after the necessary nodes that follow the
\* conditional ones, nodes for the same variables in the same order
BranchesAligned(g, n, k, x) ==
  ChainVars(g, n, k, g.s1[k][g.s1[k][g.s1[k][x]]])
    = ChainVars(g, n, k, g.s1[k][g.s1[k][g.s2[k][x]]])

TreeShape(g, n, k) ==
  \A x \in TreeNodes(g, k) :
    /\ g.s2[k][x] # NULL => g.s1[k][x] # NULL
    /\ (g.s1[k][x] # NULL /\ g.s2[k][x] # NULL) =>
         /\ BranchingShape(g, n, k, g.s1[k][x], g.s2[k][x])
         /\ (g.leaves[k][0] # NULL /\ g.leaves[k][1] # NULL) => BranchesAligned(g, n, k, x)

\* C29: after every builder step, in every tree: a node has a second successor only if
\* it has a first; a node with two successors has two conditional children on distinct
\* variables, each with exactly one successor, which is a necessary node carrying the
\* converse of the fixing of the other conditional node; and while both leaves are
\* live, the two branches hold, below these necessary nodes, nodes for the same
\* variables in the same order.
C29_TreesKeepTheirShape ==
  (/\ call.op = "build"
   /\ call.result = "index"
   /\ call.runs[1].last = "drained"
   /\ ~call.runs[1].cx.infeasible) =>
    \A k \in 0..(call.runs[1].nperms - 1) : TreeShape(call.runs[1].cx.g, NVars, k)

\* after a step a tree has two live leaves below branches of three nodes each
C29_Witness ==
  /\ call.op = "build" /\ call.result = "index" /\ call.runs[1].last = "drained"
  /\ ~call.runs[1].cx.infeasible
  /\ \E k \in 0..(call.runs[1].nperms - 1) :
       LET g == call.runs[1].cx.g
       IN /\ g.leaves[k][0] # NULL /\ g.leaves[k][1] # NULL
          /\ \E x \in TreeNodes(g, k) :
               /\ g.s1[k][x] # NULL /\ g.s2[k][x] # NULL
               /\ Len(ChainVars(g, NVars, k, g.s1[k][x])) = 3
               /\ Len(ChainVars(g, NVars, k, g.s2[k][x])) = 3
               /\ TreeShape(g, NVars, k)

\* the nodes of tree k that have two successors
BranchingNodes(g, k) ==
  {x \in TreeNodes(g, k) : g.s1[k][x] # NULL /\ g.s2[k][x] # NULL}

\* the live leaves of tree k
LiveLeaves(g, k) == {g.leaves[k][0], g.leaves[k][1]} \ {NULL}

\* the nodes of tree k without successors
EndNodes(g, k) == {x \in TreeNodes(g, k) : g.s1[k][x] = NULL /\ g.s2[k][x] = NULL}

\* the builder is about to take the case (_, _) at the leaf leafid of its tree
BranchTaken(f, leafid) ==
  /\ f.pc = (IF leafid = 0 THEN "leaf0" ELSE "leaf1")
  /\ ~f.cx.ret /\ ~f.cx.eol
  /\ f.cx.g.leaves[f.k][leafid] # NULL
  /\ f.var1fixes[leafid + 1] = UNFIXED
  /\ f.var2fixes[leafid + 1] = UNFIXED

\* C30: a tree never has more than two live leaves nor more than one branching node:
\* the case (_, _), which creates two branches, is only taken while the other leaf slot
\* of the tree is empty, and every live leaf pointer refers to a node that is linked
\* into the tree and has no successors.
C30_AtMostOneBranching ==
  call.op = "build" =>
    LET f == call.runs[1]
        g == f.cx.g
    IN /\ \A k \in 0..(f.nperms - 1) :
            /\ Cardinality(LiveLeaves(g, k)) <= 2
            /\ Cardinality(EndNodes(g, k)) <= 2
            /\ Cardinality(BranchingNodes(g, k)) <= 1
            /\ LiveLeaves(g, k) \subseteq EndNodes(g, k)
       /\ \A leafid \in 0..1 : BranchTaken(f, leafid) => g.leaves[f.k][1 - leafid] = NULL

\* the case (_, _) is taken at the second leaf slot of a tree, while the first is empty
C30_Witness ==
  /\ call.op = "build"
  /\ BranchTaken(call.runs[1], 1)
  /\ call.runs[1].cx.g.leaves[call.runs[1].k][0] = NULL

\* the fixing queue fq on n variables: every variable is pending at most once, with one
\* value, the marks agree with the entries, and there are at most n entries
QueueWellFormed(fq, n) ==
  /\ Len(fq.fixingqueue) <= n
  /\ \A i \in Vars(n) :
       /\ fq.fixinginqueue[i] \in {UNFIXED, FIXED0, FIXED1}
       /\ Cardinality({p \in 1..Len(fq.fixingqueue) : fq.fixingqueue[p] % n = i})
            = (IF fq.fixinginqueue[i] = UNFIXED THEN 0 ELSE 1)
  /\ \A p \in 1..Len(fq.fixingqueue) :
       /\ fq.fixingqueue[p] \in 0..(2 * n - 1)
       /\ fq.fixinginqueue[fq.fixingqueue[p] % n]
            = (IF fq.fixingqueue[p] >= n THEN FIXED1 ELSE FIXED0)

\* what enqueueFixing makes of the context cx for the fixing and the power
EnqueuedAsStated(cx, r, n, fixing, permpow) ==
  LET i == fixing % n
      b == IF fixing >= n THEN FIXED1 ELSE FIXED0
      q == cx.fq.fixinginqueue[i]
  IN /\ q = b => r = cx
     /\ (q # b /\ q # UNFIXED) => (r.infeasible /\ r.fq = cx.fq)
     /\ q = UNFIXED =>
          /\ r.fq.fixinginqueue = [cx.fq.fixinginqueue EXCEPT ![i] = b]
          /\ r.fq.fixingpermpows = [cx.fq.fixingpermpows EXCEPT ![i] = permpow]
          /\ r.fq.fixingqueue = Append(cx.fq.fixingqueue, fixing)
          /\ r.infeasible = cx.infeasible

\* C31: in the fixing queue every variable is pending at most once and never with both
\* values; where the builder or applyFixings can enqueue (at Endofleaves and at the
\* update of a tree), enqueueing a value that is pending for the variable changes nothing,
\* enqueueing the opposite of a pending value signals infeasibility and leaves the queue
\* unchanged, any other enqueue marks the variable, records the power and pushes one
\* entry; the queue never holds more than n entries.
C31_FixingQueueHoldsEachVariableOnce ==
  call.op = "build" =>
    /\ QueueWellFormed(call.runs[1].cx.fq, NVars)
    /\ call.result \in {"surface", "apply"} =>
         \A fixing \in 0..(2 * NVars - 1) :
           EnqueuedAsStated(call.runs[1].cx,
                            enqueueFixing(call.runs[1].cx, NVars, fixing,
                                          call.runs[1].cx.g.permpows[call.runs[1].k]),
                            NVars, fixing, call.runs[1].cx.g.permpows[call.runs[1].k])

\* the update of a tree enqueued the opposite of a pending fixing: the conflict analysis
\* of enqueueFixing was started for a variable that is still marked in the queue
C31_Witness ==
  /\ call.op = "build"
  /\ call.runs[1].last = "apply"
  /\ call.runs[1].cx.infeasible
  /\ Len(call.runs[1].cx.fq.fixingqueue) > 0
  /\ Len(call.runs[1].cx.conflicts) > 0
  /\ LET c == call.runs[1].cx.conflicts[Len(call.runs[1].cx.conflicts)]
     IN /\ Len(c.calls) = 2
        /\ c.calls[1].var >= 0
        /\ call.runs[1].cx.fq.fixinginqueue[c.calls[1].var] # UNFIXED

\* completeFixingsPerPermutation from every entry state of one constraint on at most
\* MaxNTerminate variables
InitTerminate ==
  \E n \in 2..MaxNTerminate :
    InitWith(n, 1, Derangements(n), {DEFAULT_SYMRETOPEPEEK}, MaxOrders, {TRUE})

\* the function has returned
BuilderDone == call.op = "build" /\ call.result = "done"

\* the steps of the function are those of one sequential call, so a step that can be
\* taken is taken: weak fairness of NextBuilder, written with the positions of the call
\* in the place of ENABLED (a step can be taken from every position but "done")
SpecTerminate ==
  /\ InitTerminate /\ [][NextBuilder]_vars
  /\ ([]<>BuilderDone \/ []<><<NextBuilder>>_vars)

\* the number of indices that the loop of a tree sweeps
SweptIndices(f) == IF f.support.on THEN f.support.n ELSE NVars

\* the loop over the permutation queue is left: label Cleanup is next
AtCleanup ==
  /\ call.op = "build" /\ call.result = "queue"
  /\ (Len(call.runs[1].cx.g.permsqueue) = 0 \/ call.runs[1].cx.ret)

\* at label Cleanup infeasibility was found or both queues are empty
LeavesWithEmptyQueues ==
  AtCleanup =>
    \/ call.runs[1].cx.infeasible
    \/ /\ Len(call.runs[1].cx.g.permsqueue) = 0
       /\ Len(call.runs[1].cx.fq.fixingqueue) = 0

\* the cursor of every tree stays within the indices swept
CursorsInRange ==
  call.op = "build" =>
    \A k \in 0..(call.runs[1].nperms - 1) :
      call.runs[1].cx.g.permindices[k] \in 0..SweptIndices(call.runs[1])

\* no step of the call decreases a cursor or frees a variable that is fixed
CursorsAndFixingsGrow ==
  (call.op = "build" /\ call'.op = "build") =>
    /\ \A k \in 0..(call.runs[1].nperms - 1) :
         call'.runs[1].cx.g.permindices[k] >= call.runs[1].cx.g.permindices[k]
    /\ \A v \in Vars(NVars) :
         getVarFixingValue(call.runs[1].cx, v) # UNFIXED =>
           getVarFixingValue(call'.runs[1].cx, v) = getVarFixingValue(call.runs[1].cx, v)

\* a fixing is popped from the fixing queue only for a variable that is not fixed, and
\* the step fixes it or finds infeasibility: with CursorsAndFixingsGrow no variable is
\* applied twice
PopsUnfixedVariable ==
  (/\ call.op = "build" /\ call.result = "drain"
   /\ Len(call.runs[1].cx.fq.fixingqueue) > 0 /\ ~call.runs[1].cx.ret) =>
    LET q == call.runs[1].cx.fq.fixingqueue
        v == q[Len(q)] % NVars
    IN /\ getVarFixingValue(call.runs[1].cx, v) = UNFIXED
       /\ \/ call'.runs[1].cx.infeasible
          \/ getVarFixingValue(call'.runs[1].cx, v)
               = (IF q[Len(q)] >= NVars THEN FIXED1 ELSE FIXED0)

\* C32: for every permutation and every partial fixing, completeFixingsPerPermutation
\* terminates, either with infeasibility or with the permutation queue and the fixing
\* queue both empty: the cursor of each power never decreases and never exceeds the
\* number of indices swept, and each variable is applied from the fixing queue at most
\* once per call.
C32_BuilderTerminates ==
  /\ <>BuilderDone
  /\ [](LeavesWithEmptyQueues /\ CursorsInRange)
  /\ [][CursorsAndFixingsGrow /\ PopsUnfixedVariable]_vars

\* the call ended without infeasibility after it applied three fixings from the queue
C32_Witness ==
  /\ call.op = "build" /\ call.result = "done"
  /\ ~call.runs[1].cx.infeasible
  /\ call.runs[1].cx.ngen >= 3

EnqueueSignals(cx) == {q \in 1..Len(cx.conflicts) : Len(cx.conflicts[q].calls) = 2}

\* C34: if enqueueFixing signals a contradiction while the fixing queue is drained (a
\* collapse in applyFixings brings a necessary fixing below the root whose opposite is
\* still pending), then the call of completeFixingsPerPermutation returns infeasible,
\* also when further pending fixings are applied after the signal.
C34_SignalSurvivesDrain ==
  (call.op = "build" /\ call.result = "done" /\ EnqueueSignals(call.runs[1].cx) # {}) =>
    call.runs[1].cx.infeasible

\* enqueueFixing signalled a contradiction, applyFixings went on and set a pending fixing
\* (which cleared the flag), and the call returned infeasible
C34_Witness ==
  /\ call.op = "build" /\ call.result = "done"
  /\ call.runs[1].cx.infeasible
  /\ \E q \in EnqueueSignals(call.runs[1].cx) :
       /\ q < Len(call.runs[1].cx.conflicts)
       /\ call.runs[1].cx.conflicts[q].bounds # call.runs[1].cx.bounds

\* the calls of resolveSymretopeConflictVariables that the last callback made: the
\* conflict analyses that a propagation started on the bounds of that moment, and the
\* resolution of a bound change that was committed with a power as inferinfo
ConflictCalls(cd, log) ==
  UNION {{[P |-> cd.permutation, var |-> log[q].calls[r].var,
            upper |-> log[q].calls[r].upper, permpow |-> log[q].calls[r].permpow,
            at |-> log[q].bounds] : r \in 1..Len(log[q].calls)} : q \in 1..Len(log)}

ResolverCalls ==
  IF call.op = "prop"
  THEN UNION {ConflictCalls(conss[call.runs[p].cons], call.runs[p].conflicts) :
                p \in 1..Len(call.runs)}
  ELSE IF call.op = "build"
  THEN ConflictCalls(conss[1], call.runs[1].cx.conflicts)
  ELSE IF call.op = "resprop" /\ commits[call.idx].inferinfo >= 0
  THEN {[P |-> conss[commits[call.idx].cons].permutation, var |-> commits[call.idx].var,
         upper |-> (commits[call.idx].fixing # FIXED1),
         permpow |-> commits[call.idx].inferinfo, at |-> commits[call.idx].before]}
  ELSE {}

ResolverEnd(r) == ResolveScanEnd(r.P, r.permpow, r.at, 0, ResolveStart(r.P, r.var, r.upper))

\* C35: every call of the direct resolver, for a bound change committed with a power
\* p >= 0 as inferinfo or for an infeasibility found under power p, ends its scan at a
\* (0, 1) pair before the index runs past n - 1, and meets neither a pair that is
\* undetermined on both sides nor a (1, 0) pair on its local vector.
C35_ResolverScanStopsAtZeroOne ==
  \A r \in ResolverCalls : ResolverEnd(r) \notin {"past end", "undetermined", "(1, 0)"}

\* no assertion of the resolver fails at all
ResolverScanBreaks == \A r \in ResolverCalls : ResolverEnd(r) = "break"

\* a resolution of a committed bound change whose scan passes an index before it stops
C35_Witness ==
  /\ call.op = "resprop"
  /\ \E r \in ResolverCalls :
       /\ ResolverEnd(r) = "break"
       /\ \E i \in Vars(r.P.nvars) :
            i > 0 /\ ResolveScanEnd(r.P, r.permpow, r.at, i, ResolveStart(r.P, r.var, r.upper)) # "break"

\* a conflict analysis of an infeasibility whose scans stop at a (0, 1) pair
C35_WitnessConflict ==
  /\ call.op = "prop"
  /\ ResolverCalls # {}
  /\ \A r \in ResolverCalls : ResolverEnd(r) = "break"

\* the replay that consRespropSymretope makes for the bound change number k: the base
\* propagation on an overlay that holds the bounds before the change and the opposite
\* of the inferred value
RespropReplay(k) ==
  LET cm == commits[k]
      cd == conss[cm.cons]
      vf0 == BoundsAsFixings(allocVirtualFixings(cd.nvars), cm.before, cd.nvars, 0)
      vf1 == setVirtualFixing(vf0, cm.var, IF cm.fixing = FIXED1 THEN FIXED0 ELSE FIXED1)
  IN HypotheticalRun(cd, conshdlrdata, bounds, vf1,
                     [on |-> TRUE, at |-> [v \in Vars(cd.nvars) |-> FALSE]])

\* the cycle of the permutation P that holds variable v
CycleOf(P, v) ==
  CHOOSE c \in 0..(P.ncycles - 1) :
    \E q \in 0..(P.cyclelengths[c] - 1) : P.cycles[c][q] = v

\* C36: for every bound change that peek committed, the replay of the base propagation
\* (from the first cycle with equality power 1, without peek) on an overlay holding the
\* bounds at the bound change index and the flipped value of the inferred variable
\* reports infeasible.
C36_ReplayOfPeekFixingIsInfeasible ==
  \A k \in 1..Len(commits) :
    commits[k].inferinfo < 0 => RespropReplay(k).infeasible

\* peek committed a fixing on a later cycle of a monotone and ordered permutation, and
\* the replay, which starts from the first cycle, reports infeasible
C36_Witness ==
  \E k \in 1..Len(commits) :
    /\ call.op = "resprop" /\ call.idx = k
    /\ commits[k].inferinfo < 0
    /\ conss[commits[k].cons].permutation.ismonotone
    /\ conss[commits[k].cons].permutation.isordered
    /\ CycleOf(conss[commits[k].cons].permutation, commits[k].var) > 0
    /\ RespropReplay(k).infeasible

\* the iterations of the loop over the cycles that the last callback went through, with
\* the permutation of the constraint: those of each propagation run, the hypothetical
\* runs of its peek loop included, and those of the replay of a resolution
CycleLog ==
  IF call.op = "prop"
  THEN UNION {{[P |-> conss[call.runs[p].cons].permutation, at |-> call.runs[p].cycles[q]] :
                 q \in 1..Len(call.runs[p].cycles)} : p \in 1..Len(call.runs)}
  ELSE IF call.op = "resprop" /\ commits[call.idx].inferinfo < 0
  THEN {[P |-> conss[commits[call.idx].cons].permutation, at |-> e] :
          e \in {RespropReplay(call.idx).cycles[q] :
                   q \in 1..Len(RespropReplay(call.idx).cycles)}}
  ELSE {}

\* the iteration completes the fixings of its cycle: the loop is not left and the
\* cycle is not skipped
CycleProcessed(e) ==
  /\ e.at.c < e.P.ncycles
  /\ e.at.eqpow # e.P.order
  /\ e.at.eqpow % e.P.cyclelengths[e.at.c] # 0

\* number of powers tracked for the cycle of a processed iteration
CyclePowers(e) == TreeCount(0, e.at.eqpow, CycleSupport(e.P, e.at.c))

\* C37: in the fast path the equality power is at least 1 and divides the order; for
\* every processed cycle each tracked power (k+1) * eqpow, k below
\* cyclen / gcd(cyclen, eqpow) - 1, lies in 1..order-1 and is no multiple of the cycle
\* length, and the number of tracked powers is at most the number of trees allocated,
\* the largest cycle length minus 1.
C37_FastPathPowers ==
  \A e \in CycleLog :
    /\ e.at.eqpow >= 1
    /\ e.P.order % e.at.eqpow = 0
    /\ e.at.arena = e.P.maxcyclesize - 1
    /\ CycleProcessed(e) =>
         /\ CyclePowers(e) <= e.at.arena
         /\ \A k \in 0..(CyclePowers(e) - 1) :
              /\ (k + 1) * e.at.eqpow \in 1..(e.P.order - 1)
              /\ ((k + 1) * e.at.eqpow) % e.P.cyclelengths[e.at.c] # 0

\* a propagation processes a later cycle under an equality power above 1 and tracks
\* two powers or more for it
C37_Witness ==
  /\ call.op = "prop"
  /\ \E e \in CycleLog :
       /\ CycleProcessed(e)
       /\ e.at.c > 0 /\ e.at.eqpow > 1
       /\ CyclePowers(e) >= 2

\* the states of the real runs of the last propagation in which the peek loop of the
\* fast path starts: the fixings of cycle c were completed without infeasibility
PeekStarts ==
  IF call.op = "prop"
  THEN UNION {{[P |-> conss[call.runs[p].cons].permutation, at |-> call.runs[p].cycles[q]] :
                 q \in {q \in 1..Len(call.runs[p].cycles) :
                          /\ call.runs[p].findcompleteset
                          /\ call.runs[p].cycles[q].at = "base"
                          /\ ~call.runs[p].cycles[q].virtual
                          /\ ~call.runs[p].cycles[q].infeasible}} :
              p \in 1..Len(call.runs)}
  ELSE {}

\* the unfixed entries of the cycle of e
UnfixedInCycle(e) ==
  {e.P.cycles[e.at.c][q] : q \in {q \in 0..(e.P.cyclelengths[e.at.c] - 1) :
                                   e.at.fixings[e.P.cycles[e.at.c][q]] = UNFIXED}}

\* the unfixed entries among the first floor(cyclen / 2) positions of the cycle of e
UnfixedInFirstHalf(e) ==
  {e.P.cycles[e.at.c][q] : q \in {q \in 0..((e.P.cyclelengths[e.at.c] \div 2) - 1) :
                                   e.at.fixings[e.P.cycles[e.at.c][q]] = UNFIXED}}

\* the fixings of e with the values whose peek tests are skipped: 1 for the smallest
\* unfixed entry of the first half, 0 for every other unfixed entry of the cycle
SkippedValues(e) ==
  [v \in DOMAIN e.at.fixings |->
     IF v \notin UnfixedInCycle(e) THEN e.at.fixings[v]
     ELSE IF v \in UnfixedInFirstHalf(e) /\ \A w \in UnfixedInFirstHalf(e) : v <= w
     THEN FIXED1 ELSE FIXED0]

\* the powers that are left when the cycle of e is processed: the multiples of the
\* equality power below the order
PowersLeft(e) == {k \in 1..(e.P.order - 1) : k % e.at.eqpow = 0}

\* the powers tracked for the cycle of e
PowersTracked(e) ==
  {(k + 1) * e.at.eqpow :
     k \in 0..(TreeCount(0, e.at.eqpow, CycleSupport(e.P, e.at.c)) - 1)}

\* the skipped values with every variable outside the cycle of e at 0
SkippedValuesOnCycle(e) ==
  [v \in DOMAIN e.at.fixings |->
     IF \E q \in 0..(e.P.cyclelengths[e.at.c] - 1) : e.P.cycles[e.at.c][q] = v
     THEN SkippedValues(e)[v] ELSE FIXED0]

\* the hypothetical run that the peek loop would make from the state e with entry i
\* at the value whose test is skipped: the loop over the cycles from the cycle of e on
SkippedTest(e, i) ==
  LET n == e.P.nvars
      cd == [nvars |-> n, permutation |-> e.P, nperms |-> 0]
      cx == Context(0, n, e.at.fixings, << >>, NoVirtualFixings(n), TRUE,
                    [on |-> FALSE, at |-> [v \in Vars(n) |-> FALSE]])
      c0 == [cx EXCEPT !.g = allocSymretopeGraph(n, e.P.maxcyclesize - 1)]
      pvf == setVirtualFixing(allocVirtualFixings(n), i, SkippedValues(e)[i])
  IN propVariablesMonotoneOrderedHotstart(PeekContext(c0, pvf, FALSE), cd, FALSE,
                                          e.at.eqpow, e.at.c)

\* the propagation did not end in a cutoff
NoCutoff == call.op = "prop" /\ \A p \in 1..Len(call.runs) : ~call.runs[p].infeasible

\* the skipped values of e satisfy x >= gamma^k(x) on the cycle of e for the powers
\* tracked for the cycle
SkippedValuesFeasibleOnCycle ==
  \A e \in PeekStarts :
    UnfixedInCycle(e) # {} =>
      FeasibleVectors(e.P.perm, e.P.nvars, SkippedValuesOnCycle(e), PowersTracked(e)) # {}

\* no skipped peek test reports infeasibility
SkippedTestsPass ==
  \A e \in PeekStarts : \A i \in UnfixedInCycle(e) : ~SkippedTest(e, i).infeasible

\* C38: the peek tests that the fast path skips could never have found infeasibility:
\* after the fixings of cycle c were completed without infeasibility, the smallest
\* unfixed entry of the first floor(cyclen / 2) positions can be set to 1 and every
\* other unfixed entry of the cycle to 0, with a 0/1 vector that respects the current
\* fixings and satisfies x >= gamma^k(x) for all powers k that are left.
C38_SkippedValuesAlwaysFeasible ==
  /\ SkippedTestsPass
  /\ \A e \in PeekStarts :
       UnfixedInCycle(e) # {} =>
         FeasibleVectors(e.P.perm, e.P.nvars, SkippedValues(e), PowersLeft(e)) # {}

\* C38, amended: the skipped values satisfy x >= gamma^k(x) on cycle c for the powers
\* tracked for c; and when the propagation does not end in a cutoff, no skipped test
\* would have found infeasibility and the skipped values extend to a 0/1 vector that
\* respects the current fixings and satisfies x >= gamma^k(x) for all powers k left.
C38_SkippedValuesFeasibleUnlessCutoff ==
  /\ SkippedValuesFeasibleOnCycle
  /\ NoCutoff =>
       /\ SkippedTestsPass
       /\ \A e \in PeekStarts :
            UnfixedInCycle(e) # {} =>
              FeasibleVectors(e.P.perm, e.P.nvars, SkippedValues(e), PowersLeft(e)) # {}

\* a propagation without cutoff whose peek loop starts on a cycle of odd length with
\* two unfixed entries or more, one of them in the first half
C38_Witness ==
  /\ NoCutoff
  /\ \E e \in PeekStarts :
       /\ e.P.cyclelengths[e.at.c] % 2 = 1
       /\ Cardinality(UnfixedInCycle(e)) >= 2
       /\ UnfixedInFirstHalf(e) # {}

\* the hypothetical runs of the peek loops of the last propagation, with their run
PeekLog ==
  IF call.op = "prop"
  THEN UNION {{[run |-> call.runs[p], at |-> call.runs[p].peeks[q]] :
                 q \in 1..Len(call.runs[p].peeks)} : p \in 1..Len(call.runs)}
  ELSE {}

\* the bound changes that the run made with inferinfo -1
PeekCommits(run) == {k \in run.first..run.last : commits[k].inferinfo < 0}

\* the replay of a resolution leaves the bounds alone and starts no conflict analysis
ReplayKeepsFrame ==
  (call.op = "resprop" /\ commits[call.idx].inferinfo < 0) =>
    /\ RespropReplay(call.idx).bounds = bounds
    /\ RespropReplay(call.idx).commits = << >>
    /\ RespropReplay(call.idx).conflicts = << >>

\* C39: a hypothetical run (a peek test or the replay of a resolution) changes no
\* bound of the solver and starts no conflict analysis; and the only bounds that peek
\* changes are single commits of the opposite value, each made right after a
\* hypothetical run that reported infeasible.
C39_HypotheticalRunsKeepFrame ==
  /\ \A e \in PeekLog : e.at.bounds /\ e.at.commits /\ e.at.conflicts
  /\ ReplayKeepsFrame
  /\ call.op = "prop" =>
       \A p \in 1..Len(call.runs) :
         \A k \in PeekCommits(call.runs[p]) :
           \E q \in 1..Len(call.runs[p].peeks) :
             /\ call.runs[p].peeks[q].infeasible
             /\ call.runs[p].peeks[q].ncommits = k - 1
             /\ call.runs[p].peeks[q].overlay[commits[k].var] # UNFIXED
             /\ call.runs[p].peeks[q].overlay[commits[k].var] # commits[k].fixing

\* a hypothetical run fixed, on the overlay, a variable that is free in the solver
\* besides the tested one, was infeasible, and peek committed the opposite value
C39_Witness ==
  /\ call.op = "prop"
  /\ \E e \in PeekLog :
       /\ e.at.infeasible
       /\ Cardinality({v \in e.at.free : e.at.overlay[v] # UNFIXED}) >= 2
       /\ \E k \in PeekCommits(e.run) : e.at.ncommits = k - 1

\* number of times v was appended to the impactful list
TimesPut(run, v) == Cardinality({q \in 1..Len(run.put) : run.put[q] = v})

\* every examined entry was appended once and, without a cutoff, popped
ExaminedEntriesPeeked(run) ==
  \A v \in run.seen :
    /\ TimesPut(run, v) = 1
    /\ ~run.infeasible => \E q \in 1..Len(run.popped) : run.popped[q] = v

\* C40: in the general path with peek, every index that the builder examined in a pair
\* that is no fixed point, during the pass on the bounds of the problem, is put on the
\* impactful list exactly once and is popped by the peek loop unless a cutoff ends the
\* loop; in particular entryisimpactful is all FALSE when the pass starts.
C40_ExaminedEntriesArePeeked ==
  call.op = "peek" =>
    /\ \A v \in DOMAIN call.runs[1].garbage : ~call.runs[1].garbage[v]
    /\ ExaminedEntriesPeeked(call.runs[1])

\* the statement on the calls that find the buffer cleared
ClearedBufferIsPeeked ==
  (call.op = "peek" /\ \A v \in DOMAIN call.runs[1].garbage : ~call.runs[1].garbage[v]) =>
    ExaminedEntriesPeeked(call.runs[1])

\* a call that finds the buffer cleared, examines entries and pops them all
ClearedBufferWitness ==
  /\ call.op = "peek" /\ ~call.runs[1].infeasible
  /\ \A v \in DOMAIN call.runs[1].garbage : ~call.runs[1].garbage[v]
  /\ Cardinality(call.runs[1].seen) >= 3

\* an examined entry is never put on the list, the bounds being those of a call that
\* fixes nothing
ExaminedEntryLost ==
  /\ call.op = "peek" /\ ~call.runs[1].infeasible
  /\ \E v \in call.runs[1].seen : TimesPut(call.runs[1], v) = 0
====
